---- MODULE Spec2Model ----
(***************************************************************************)
(* Model of Agent 86 (src/src/agent.py, llm.py, tools.py, config.py).      *)
(* Texts are sequences of one-character strings, so that the regular       *)
(* expressions, the argument scanner and the str methods of the source are *)
(* computed character by character.                                        *)
(***************************************************************************)
EXTENDS Integers, Sequences, FiniteSets, TLC

(***************************************************************************)
(* Character classes and literals of the source.                           *)
(***************************************************************************)
LowerLetters == <<"a","b","c","d","e","f","g","h","i","j","k","l","m",
                  "n","o","p","q","r","s","t","u","v","w","x","y","z">>

UpperLetters == <<"A","B","C","D","E","F","G","H","I","J","K","L","M",
                  "N","O","P","Q","R","S","T","U","V","W","X","Y","Z">>

Digits == <<"0","1","2","3","4","5","6","7","8","9">>

Range(f) == { f[x] : x \in DOMAIN f }

\* \w of the re module, and str.isalnum() or '_' (agent.py:176)
WordChars == Range(LowerLetters) \cup Range(UpperLetters) \cup Range(Digits) \cup {"_"}

\* \s of the re module and the characters removed by str.strip()
SpaceChars == {" ", "\t", "\n", "\r", "\f"}

\* agent.py:168  args_str[i] in ' ,\t\n'
SepChars == {" ", ",", "\t", "\n"}

\* agent.py:185 and 194  args_str[i] in ' \t\n'
BlankChars == {" ", "\t", "\n"}

\* agent.py:202  quote_char not in ('"', "'")
QuoteChars == {"\"", "'"}

tool_call_start == <<"<","|","t","o","o","l","_","c","a","l","l","_","s","t","a","r","t","|",">">>

tool_call_end == <<"<","|","t","o","o","l","_","c","a","l","l","_","e","n","d","|",">">>

im_start_assistant == <<"<","|","i","m","_","s","t","a","r","t","|",">","a","s","s","i","s","t","a","n","t">>

terminal == <<"t","e","r","m","i","n","a","l">>

internet == <<"i","n","t","e","r","n","e","t">>

complete == <<"c","o","m","p","l","e","t","e">>

command == <<"c","o","m","m","a","n","d">>

url == <<"u","r","l">>

\* Python's None
None == <<"N","o","n","e","#">>

(***************************************************************************)
(* str helpers.                                                            *)
(***************************************************************************)
Min(a, b) == IF a <= b THEN a ELSE b

\* the first index q >= p whose character is outside S (Len(s)+1 if none):
\* the shape of every "while i < len(s) and s[i] in S: i += 1" and of a
\* greedy \s* or \w+ followed by a character outside the class
SkipWhile(s, p, S) ==
    IF p > Len(s) THEN p
    ELSE CHOOSE q \in p..(Len(s) + 1) :
            /\ \A k \in p..(q - 1) : s[k] \in S
            /\ (q = Len(s) + 1 \/ s[q] \notin S)

\* s[p:].startswith(lit), p counted from 1
StartsWithAt(s, p, lit) ==
    /\ p >= 1
    /\ p + Len(lit) - 1 <= Len(s)
    /\ SubSeq(s, p, p + Len(lit) - 1) = lit

\* lit in s
Contains(s, lit) == \E p \in 1..Len(s) : StartsWithAt(s, p, lit)

\* s[:n]
Take(s, n) == SubSeq(s, 1, Min(n, Len(s)))

\* str.strip()
Strip(s) ==
    LET lo == SkipWhile(s, 1, SpaceChars)
    IN  IF lo > Len(s) THEN << >>
        ELSE LET hi == CHOOSE h \in lo..Len(s) :
                          /\ s[h] \notin SpaceChars
                          /\ \A k \in (h + 1)..Len(s) : s[k] \in SpaceChars
             IN  SubSeq(s, lo, hi)

LowerChar(c) ==
    IF c \in Range(UpperLetters)
    THEN LowerLetters[CHOOSE k \in DOMAIN UpperLetters : UpperLetters[k] = c]
    ELSE c

\* str.lower()
Lower(s) == [k \in 1..Len(s) |-> LowerChar(s[k])]

\* s.split(sep)[-1] for a separator text that cannot overlap itself
SplitLast(s, sep) ==
    IF ~Contains(s, sep) THEN s
    ELSE LET p == CHOOSE q \in 1..Len(s) :
                     /\ StartsWithAt(s, q, sep)
                     /\ \A k \in (q + 1)..Len(s) : ~StartsWithAt(s, k, sep)
         IN  SubSeq(s, p + Len(sep), Len(s))

\* s.split(c, 1)[1] for a one-character separator that occurs in s
AfterFirst(s, c) ==
    LET p == CHOOSE q \in 1..Len(s) : s[q] = c /\ \A k \in 1..(q - 1) : s[k] # c
    IN  SubSeq(s, p + 1, Len(s))

RECURSIVE SplitLines(_)
\* s.split("\n")
SplitLines(s) ==
    IF \A k \in 1..Len(s) : s[k] # "\n" THEN << s >>
    ELSE LET p == CHOOSE q \in 1..Len(s) : s[q] = "\n" /\ \A k \in 1..(q - 1) : s[k] # "\n"
         IN  << SubSeq(s, 1, p - 1) >> \o SplitLines(SubSeq(s, p + 1, Len(s)))

RECURSIVE IntToStr(_)
\* str(i) for i >= 0
IntToStr(i) ==
    IF i < 10 THEN << Digits[i + 1] >>
    ELSE IntToStr(i \div 10) \o << Digits[(i % 10) + 1] >>

(***************************************************************************)
(* Agent._parse_tool_calls, agent.py:114-225.                              *)
(***************************************************************************)
\* the end of the lazy (.*?) of the marked pattern: the first "]" at or after
\* position b that is followed by \s* and the end marker (0 if none)
MarkedClose(s, b) ==
    LET ok(q) == /\ s[q] = "]"
                 /\ StartsWithAt(s, SkipWhile(s, q + 1, SpaceChars), tool_call_end)
    IN  IF \E q \in b..Len(s) : ok(q)
        THEN CHOOSE q \in b..Len(s) : ok(q) /\ \A k \in b..(q - 1) : ~ok(k)
        ELSE 0

\* one attempt of  <\|tool_call_start\|\>\s*\[(.*?)\]\s*<\|tool_call_end\|\>
\* at position p (re.DOTALL): the captured group and the position after the match
MarkedMatchAt(s, p) ==
    IF ~StartsWithAt(s, p, tool_call_start) THEN [ok |-> FALSE]
    ELSE LET b == SkipWhile(s, p + Len(tool_call_start), SpaceChars)
         IN  IF b > Len(s) \/ s[b] # "[" THEN [ok |-> FALSE]
             ELSE LET q == MarkedClose(s, b + 1)
                  IN  IF q = 0 THEN [ok |-> FALSE]
                      ELSE [ok    |-> TRUE,
                            group |-> SubSeq(s, b + 1, q - 1),
                            next  |-> SkipWhile(s, q + 1, SpaceChars) + Len(tool_call_end)]

RECURSIVE FindAllMarkedReversed(_, _)
\* a variant of FindAllMarked that lists the later matches first
FindAllMarkedReversed(s, p) ==
    LET starts == { q \in p..Len(s) : MarkedMatchAt(s, q).ok }
    IN  IF starts = {} THEN << >>
        ELSE LET m == MarkedMatchAt(s, CHOOSE q \in starts : \A k \in starts : q <= k)
             IN  FindAllMarkedReversed(s, m.next) \o << m.group >>

RECURSIVE FindAllMarked(_, _)
\* re.findall(pattern, response, re.DOTALL) for the marked pattern, from p on:
\* the leftmost match, then the matches after its end
FindAllMarked(s, p) ==
    LET starts == { q \in p..Len(s) : MarkedMatchAt(s, q).ok }
    IN  IF starts = {} THEN << >>
        ELSE LET m == MarkedMatchAt(s, CHOOSE q \in starts : \A k \in starts : q <= k)
             IN  << m.group >> \o FindAllMarked(s, m.next)

\* the end of the lazy (.*?) of the unmarked pattern: the first ")" at or after
\* position b that is directly followed by "]" (0 if none)
UnmarkedClose(s, b) ==
    LET ok(q) == s[q] = ")" /\ q + 1 <= Len(s) /\ s[q + 1] = "]"
    IN  IF \E q \in b..Len(s) : ok(q)
        THEN CHOOSE q \in b..Len(s) : ok(q) /\ \A k \in b..(q - 1) : ~ok(k)
        ELSE 0

\* one attempt of  \[(\w+)\s*\((.*?)\)\]  at position p (re.DOTALL)
UnmarkedMatchAt(s, p) ==
    IF s[p] # "[" THEN [ok |-> FALSE]
    ELSE LET w == SkipWhile(s, p + 1, WordChars)
             b == SkipWhile(s, w, SpaceChars)
         IN  IF w = p + 1 \/ b > Len(s) \/ s[b] # "(" THEN [ok |-> FALSE]
             ELSE LET q == UnmarkedClose(s, b + 1)
                  IN  IF q = 0 THEN [ok |-> FALSE]
                      ELSE [ok        |-> TRUE,
                            func_name |-> SubSeq(s, p + 1, w - 1),
                            args_str  |-> SubSeq(s, b + 1, q - 1),
                            next      |-> q + 2]

RECURSIVE FindAllUnmarked(_, _)
\* agent.py:139-145: findall of the unmarked pattern, each match reformatted
\* to f"{func_name}({args_str})"
FindAllUnmarked(s, p) ==
    LET starts == { q \in p..Len(s) : UnmarkedMatchAt(s, q).ok }
    IN  IF starts = {} THEN << >>
        ELSE LET m == UnmarkedMatchAt(s, CHOOSE q \in starts : \A k \in starts : q <= k)
             IN  << m.func_name \o << "(" >> \o m.args_str \o << ")" >> >>
                 \o FindAllUnmarked(s, m.next)

\* a variant of Candidates that adds the unmarked matches to the marked ones
CandidatesOfBothPatterns(response) ==
    FindAllMarked(response, 1) \o FindAllUnmarked(response, 1)

\* agent.py:131-145: the marked pattern first, the unmarked one only if the
\* marked one matched nowhere
Candidates(response) ==
    LET marked == FindAllMarked(response, 1)
    IN  IF marked # << >> THEN marked ELSE FindAllUnmarked(response, 1)

\* a variant of FuncMatch that also takes a bare name, without parentheses
FuncMatchBareName(cand) ==
    LET m == Strip(cand)
        w == SkipWhile(m, 1, WordChars)
        b == SkipWhile(m, w, SpaceChars)
    IN  IF w = 1 THEN [ok |-> FALSE]
        ELSE IF b > Len(m) \/ m[b] # "(" \/ \A q \in (b + 1)..Len(m) : m[q] # ")"
        THEN [ok |-> TRUE, func_name |-> SubSeq(m, 1, w - 1), args_str |-> << >>]
        ELSE LET q == CHOOSE c \in (b + 1)..Len(m) :
                          m[c] = ")" /\ \A k \in (c + 1)..Len(m) : m[k] # ")"
             IN  [ok        |-> TRUE,
                  func_name |-> SubSeq(m, 1, w - 1),
                  args_str  |-> SubSeq(m, b + 1, q - 1)]

\* agent.py:151-156: re.match(r'(\w+)\s*\((.*)\)', match.strip(), re.DOTALL);
\* the greedy (.*) ends at the last ")" of the candidate
FuncMatch(cand) ==
    LET m == Strip(cand)
        w == SkipWhile(m, 1, WordChars)
        b == SkipWhile(m, w, SpaceChars)
    IN  IF w = 1 \/ b > Len(m) \/ m[b] # "(" THEN [ok |-> FALSE]
        ELSE IF \A q \in (b + 1)..Len(m) : m[q] # ")" THEN [ok |-> FALSE]
        ELSE LET q == CHOOSE c \in (b + 1)..Len(m) :
                          m[c] = ")" /\ \A k \in (c + 1)..Len(m) : m[k] # ")"
             IN  [ok        |-> TRUE,
                  func_name |-> SubSeq(m, 1, w - 1),
                  args_str  |-> SubSeq(m, b + 1, q - 1)]

\* args[key] = value on a dict
DictSet(args, key, value) ==
    [k \in (DOMAIN args) \cup {key} |-> IF k = key THEN value ELSE args[k]]

\* dict.get(key, "")
DictGet(args, key) == IF key \in DOMAIN args THEN args[key] ELSE << >>

\* a variant of ClosingQuote that lets a quote of either kind end the value
ClosingQuoteAnyKind(a, v, quote_char) ==
    LET ok(c) == a[c] \in QuoteChars /\ (c = 1 \/ a[c - 1] # "\\")
    IN  IF \E c \in v..Len(a) : ok(c)
        THEN CHOOSE c \in v..Len(a) : ok(c) /\ \A k \in v..(c - 1) : ~ok(k)
        ELSE Len(a) + 1

\* a variant of ClosingQuote that takes a value without a closing quote to
\* be empty
ClosingQuoteOrEmpty(a, v, quote_char) ==
    LET ok(c) == a[c] = quote_char /\ (c = 1 \/ a[c - 1] # "\\")
    IN  IF \E c \in v..Len(a) : ok(c)
        THEN CHOOSE c \in v..Len(a) : ok(c) /\ \A k \in v..(c - 1) : ~ok(k)
        ELSE v

\* agent.py:209-212: the index of the closing quote: the first position from
\* v on that holds quote_char and is not preceded by a backslash, Len(a)+1 if
\* the loop runs off the end
ClosingQuote(a, v, quote_char) ==
    LET ok(c) == a[c] = quote_char /\ (c = 1 \/ a[c - 1] # "\\")
    IN  IF \E c \in v..Len(a) : ok(c)
        THEN CHOOSE c \in v..Len(a) : ok(c) /\ \A k \in v..(c - 1) : ~ok(k)
        ELSE Len(a) + 1

\* a variant of ScanIteration that drops the pairs read so far where
\* agent.py:188-189 and 202-203 break on a malformed argument
ScanIterationDiscard(a, i, args) ==
    LET k0 == SkipWhile(a, i, SepChars)
        k1 == SkipWhile(a, k0, WordChars)
        key == SubSeq(a, k0, k1 - 1)
        e == SkipWhile(a, k1, BlankChars)
        v == SkipWhile(a, e + 1, BlankChars)
        close == ClosingQuote(a, v + 1, a[v])
        none == [k \in {} |-> << >>]
    IN  IF k0 > Len(a) THEN [stop |-> TRUE, i |-> k0, args |-> args]
        ELSE IF k1 > Len(a) THEN [stop |-> TRUE, i |-> k1, args |-> args]
        ELSE IF e > Len(a) \/ a[e] # "=" THEN [stop |-> TRUE, i |-> e, args |-> none]
        ELSE IF v > Len(a) THEN [stop |-> TRUE, i |-> v, args |-> args]
        ELSE IF a[v] \notin QuoteChars THEN [stop |-> TRUE, i |-> v, args |-> none]
        ELSE [stop |-> FALSE,
              i    |-> close + 1,
              args |-> DictSet(args, key, SubSeq(a, v + 1, close - 1))]

\* a variant of ScanIteration that goes on (continue) where agent.py:188-189
\* breaks on a key without "="
ScanIterationContinue(a, i, args) ==
    LET k0 == SkipWhile(a, i, SepChars)
        k1 == SkipWhile(a, k0, WordChars)
        key == SubSeq(a, k0, k1 - 1)
        e == SkipWhile(a, k1, BlankChars)
        v == SkipWhile(a, e + 1, BlankChars)
        close == ClosingQuote(a, v + 1, a[v])
    IN  IF k0 > Len(a) THEN [stop |-> TRUE, i |-> k0, args |-> args]
        ELSE IF k1 > Len(a) THEN [stop |-> TRUE, i |-> k1, args |-> args]
        ELSE IF e > Len(a) THEN [stop |-> TRUE, i |-> e, args |-> args]
        ELSE IF a[e] # "=" THEN [stop |-> FALSE, i |-> i, args |-> args]
        ELSE IF v > Len(a) THEN [stop |-> TRUE, i |-> v, args |-> args]
        ELSE IF a[v] \notin QuoteChars THEN [stop |-> TRUE, i |-> v, args |-> args]
        ELSE [stop |-> FALSE,
              i    |-> close + 1,
              args |-> DictSet(args, key, SubSeq(a, v + 1, close - 1))]

\* agent.py:166-216: one iteration of the scanner's outer loop, entered with
\* index i (the source's index plus one) and the pairs read so far: whether
\* the loop ends here (its condition fails or a break is taken), the index
\* reached and the pairs
ScanIteration(a, i, args) ==
    LET k0 == SkipWhile(a, i, SepChars)
        k1 == SkipWhile(a, k0, WordChars)
        key == SubSeq(a, k0, k1 - 1)
        e == SkipWhile(a, k1, BlankChars)
        v == SkipWhile(a, e + 1, BlankChars)
        close == ClosingQuote(a, v + 1, a[v])
    IN  IF k0 > Len(a) THEN [stop |-> TRUE, i |-> k0, args |-> args]
        ELSE IF k1 > Len(a) THEN [stop |-> TRUE, i |-> k1, args |-> args]
        ELSE IF e > Len(a) \/ a[e] # "=" THEN [stop |-> TRUE, i |-> e, args |-> args]
        ELSE IF v > Len(a) THEN [stop |-> TRUE, i |-> v, args |-> args]
        ELSE IF a[v] \notin QuoteChars THEN [stop |-> TRUE, i |-> v, args |-> args]
        ELSE [stop |-> FALSE,
              i    |-> close + 1,
              args |-> DictSet(args, key, SubSeq(a, v + 1, close - 1))]

RECURSIVE ScanArgs(_, _, _)
\* agent.py:165-216: the argument scanner, from index i on
ScanArgs(a, i, args) ==
    LET r == ScanIteration(a, i, args)
    IN  IF r.stop THEN r.args ELSE ScanArgs(a, r.i, r.args)

EmptyDict == [k \in {} |-> << >>]

\* a variant of KnownTool that ignores the case of the name
KnownToolAnyCase(func_name) == Lower(func_name) \in {terminal, internet}

\* agent.py:218: func_name in ["terminal", "internet"]
KnownTool(func_name) == func_name \in {terminal, internet}

RECURSIVE ParseCandidates(_)
\* agent.py:147-223: the calls of the candidates, unknown names dropped
ParseCandidates(cands) ==
    IF cands = << >> THEN << >>
    ELSE LET fm == FuncMatch(Head(cands))
             rest == ParseCandidates(Tail(cands))
         IN  IF fm.ok /\ KnownTool(fm.func_name)
             THEN << [name |-> fm.func_name,
                      args |-> ScanArgs(fm.args_str, 1, EmptyDict)] >> \o rest
             ELSE rest

_parse_tool_calls(response) == ParseCandidates(Candidates(response))

(***************************************************************************)
(* Texts the source returns or compares with.                              *)
(***************************************************************************)
\* agent.py:242: 'Error: command parameter required'
ErrCommandRequired == <<"E","r","r","o","r",":"," ","c","o","m","m","a","n","d"," ","p","a","r","a","m","e","t","e","r"," ","r","e","q","u","i","r","e","d">>

\* agent.py:253: 'Error: url parameter required'
ErrUrlRequired == <<"E","r","r","o","r",":"," ","u","r","l"," ","p","a","r","a","m","e","t","e","r"," ","r","e","q","u","i","r","e","d">>

\* agent.py:246: 'Command executed successfully:\n'
CommandExecuted == <<"C","o","m","m","a","n","d"," ","e","x","e","c","u","t","e","d"," ","s","u","c","c","e","s","s","f","u","l","l","y",":","\n">>

\* agent.py:248 and 448: 'Command failed: '
CommandFailed == <<"C","o","m","m","a","n","d"," ","f","a","i","l","e","d",":"," ">>

\* agent.py:257: 'Response received:\n'
ResponseReceived == <<"R","e","s","p","o","n","s","e"," ","r","e","c","e","i","v","e","d",":","\n">>

\* agent.py:259 and 456: 'Request failed: '
RequestFailed == <<"R","e","q","u","e","s","t"," ","f","a","i","l","e","d",":"," ">>

\* agent.py:262: 'Unknown tool: '
UnknownTool == <<"U","n","k","n","o","w","n"," ","t","o","o","l",":"," ">>

\* agent.py:396: 'Task reasoning completed'
TaskReasoningCompleted == <<"T","a","s","k"," ","r","e","a","s","o","n","i","n","g"," ","c","o","m","p","l","e","t","e","d">>

\* agent.py:440 and 502: 'Task marked as complete'
TaskMarkedComplete == <<"T","a","s","k"," ","m","a","r","k","e","d"," ","a","s"," ","c","o","m","p","l","e","t","e">>

\* agent.py:446: 'Command output: '
CommandOutput == <<"C","o","m","m","a","n","d"," ","o","u","t","p","u","t",":"," ">>

\* agent.py:454: 'Response (truncated): '
ResponseTruncated == <<"R","e","s","p","o","n","s","e"," ","(","t","r","u","n","c","a","t","e","d",")",":"," ">>

\* agent.py:458: 'Unknown action: '
UnknownAction == <<"U","n","k","n","o","w","n"," ","a","c","t","i","o","n",":"," ">>

\* tools.py:44: 'Terminal tool is disabled'
TerminalDisabled == <<"T","e","r","m","i","n","a","l"," ","t","o","o","l"," ","i","s"," ","d","i","s","a","b","l","e","d">>

\* tools.py:109: 'Internet tool is disabled'
InternetDisabled == <<"I","n","t","e","r","n","e","t"," ","t","o","o","l"," ","i","s"," ","d","i","s","a","b","l","e","d">>

\* tools.py:74 with the default timeout of tools.py:30: 'Command timed out after 30 seconds'
CommandTimedOut == <<"C","o","m","m","a","n","d"," ","t","i","m","e","d"," ","o","u","t"," ","a","f","t","e","r"," ","3","0"," ","s","e","c","o","n","d","s">>

\* tools.py:128 with the default timeout of tools.py:95: 'Request timed out after 10 seconds'
RequestTimedOut == <<"R","e","q","u","e","s","t"," ","t","i","m","e","d"," ","o","u","t"," ","a","f","t","e","r"," ","1","0"," ","s","e","c","o","n","d","s">>

\* agent.py:301: 'Task '
TaskPrefix == <<"T","a","s","k"," ">>

(***************************************************************************)
(* Tool adapters, tools.py.  What the shell or the network answers is an   *)
(* input of the adapter: an outcome drawn by the calling action.           *)
(***************************************************************************)
\* tools.py:120  response.text[:5000]
GetLimit == 5000

\* agent.py:257  result.output[:500]
ToolResponseLimit == 500

\* agent.py:454  result.output[:300]
ActionResponseLimit == 300

\* tools.py:11-16
ToolResult(success, output, error) ==
    [success |-> success, output |-> output, error |-> error]

\* a variant of TerminalTool_execute that reports the stderr text of a
\* successful command too
TerminalTool_executeKeepsStderr(enabled, cmd, outcome) ==
    IF ~enabled THEN ToolResult(FALSE, << >>, TerminalDisabled)
    ELSE IF outcome.kind = "exit"
    THEN ToolResult(outcome.returncode = 0, Strip(outcome.stdout), Strip(outcome.stderr))
    ELSE IF outcome.kind = "timeout" THEN ToolResult(FALSE, << >>, CommandTimedOut)
    ELSE ToolResult(FALSE, << >>, outcome.text)

\* tools.py:30-81, TerminalTool.execute
TerminalTool_execute(enabled, cmd, outcome) ==
    IF ~enabled THEN ToolResult(FALSE, << >>, TerminalDisabled)
    ELSE IF outcome.kind = "exit"
    THEN ToolResult(outcome.returncode = 0,
                    Strip(outcome.stdout),
                    IF outcome.returncode # 0 THEN Strip(outcome.stderr) ELSE None)
    ELSE IF outcome.kind = "timeout" THEN ToolResult(FALSE, << >>, CommandTimedOut)
    ELSE ToolResult(FALSE, << >>, outcome.text)

\* tools.py:95-135, InternetTool.get
InternetTool_get(enabled, target, outcome) ==
    IF ~enabled THEN ToolResult(FALSE, << >>, InternetDisabled)
    ELSE IF outcome.kind = "ok" THEN ToolResult(TRUE, Take(outcome.text, GetLimit), None)
    ELSE IF outcome.kind = "timeout" THEN ToolResult(FALSE, << >>, RequestTimedOut)
    ELSE ToolResult(FALSE, << >>, outcome.text)

\* tools.py:137-179, InternetTool.post
InternetTool_post(enabled, target, outcome) ==
    IF ~enabled THEN ToolResult(FALSE, << >>, InternetDisabled)
    ELSE IF outcome.kind = "ok" THEN ToolResult(TRUE, Take(outcome.text, GetLimit), None)
    ELSE IF outcome.kind = "timeout" THEN ToolResult(FALSE, << >>, RequestTimedOut)
    ELSE ToolResult(FALSE, << >>, outcome.text)

\* one adapter invocation, as the test doubles of an adapter would record it:
\* the tool, the argument it was given and whether a process was spawned or a
\* request sent (tools.py:40-45 and 105-110 return before that when disabled)
Invocation(tool, arg, enabled, res) ==
    [tool |-> tool, arg |-> arg, performed |-> enabled, success |-> res.success]

(***************************************************************************)
(* Agent._execute_tool_call, agent.py:227-262.  The value is the returned  *)
(* text and the adapter invocations made on the way.                       *)
(***************************************************************************)
\* a variant of _execute_tool_call that hands the argument to the adapter
\* without looking at it
_execute_tool_call_unchecked(tool_call, cfg, outcome) ==
    LET name == Lower(tool_call.name)
        args == tool_call.args
    IN  IF name = terminal
        THEN LET cmd == DictGet(args, command)
                 res == TerminalTool_execute(cfg.enable_terminal, cmd, outcome)
             IN  [text  |-> IF res.success THEN CommandExecuted \o res.output
                            ELSE CommandFailed \o res.error,
                  calls |-> << Invocation(terminal, cmd, cfg.enable_terminal, res) >>]
        ELSE IF name = internet
        THEN LET target == DictGet(args, url)
                 res == InternetTool_get(cfg.enable_internet, target, outcome)
             IN  [text  |-> IF res.success
                            THEN ResponseReceived \o Take(res.output, ToolResponseLimit)
                            ELSE RequestFailed \o res.error,
                  calls |-> << Invocation(internet, target, cfg.enable_internet, res) >>]
        ELSE [text |-> UnknownTool \o name, calls |-> << >>]

_execute_tool_call(tool_call, cfg, outcome) ==
    LET name == Lower(tool_call.name)
        args == tool_call.args
    IN  IF name = terminal
        THEN LET cmd == DictGet(args, command)
                 res == TerminalTool_execute(cfg.enable_terminal, cmd, outcome)
             IN  IF cmd = << >>
                 THEN [text |-> ErrCommandRequired, calls |-> << >>]
                 ELSE [text  |-> IF res.success THEN CommandExecuted \o res.output
                                 ELSE CommandFailed \o res.error,
                       calls |-> << Invocation(terminal, cmd, cfg.enable_terminal, res) >>]
        ELSE IF name = internet
        THEN LET target == DictGet(args, url)
                 res == InternetTool_get(cfg.enable_internet, target, outcome)
             IN  IF target = << >>
                 THEN [text |-> ErrUrlRequired, calls |-> << >>]
                 ELSE [text  |-> IF res.success
                                 THEN ResponseReceived \o Take(res.output, ToolResponseLimit)
                                 ELSE RequestFailed \o res.error,
                       calls |-> << Invocation(internet, target, cfg.enable_internet, res) >>]
        ELSE [text |-> UnknownTool \o name, calls |-> << >>]

(***************************************************************************)
(* Agent._execute_action, agent.py:428-458.                                *)
(***************************************************************************)
\* a variant of _execute_action that hands the adapter the whole action text
_execute_action_whole(action_text, cfg, outcome) ==
    LET action_lower == Lower(action_text)
    IN  IF action_lower = complete
        THEN [text |-> TaskMarkedComplete, calls |-> << >>]
        ELSE IF StartsWithAt(action_lower, 1, terminal \o << ":" >>)
        THEN LET res == TerminalTool_execute(cfg.enable_terminal, action_text, outcome)
             IN  [text  |-> IF res.success THEN CommandOutput \o res.output
                            ELSE CommandFailed \o res.error,
                  calls |-> << Invocation(terminal, action_text, cfg.enable_terminal, res) >>]
        ELSE IF StartsWithAt(action_lower, 1, internet \o << ":" >>)
        THEN LET res == InternetTool_get(cfg.enable_internet, action_text, outcome)
             IN  [text  |-> IF res.success
                            THEN ResponseTruncated \o Take(res.output, ActionResponseLimit)
                            ELSE RequestFailed \o res.error,
                  calls |-> << Invocation(internet, action_text, cfg.enable_internet, res) >>]
        ELSE [text |-> UnknownAction \o action_text, calls |-> << >>]

\* a variant of _execute_action that compares the action text as written
_execute_action_case_sensitive(action_text, cfg, outcome) ==
    IF action_text = complete
    THEN [text |-> TaskMarkedComplete, calls |-> << >>]
    ELSE IF StartsWithAt(action_text, 1, terminal \o << ":" >>)
    THEN LET cmd == Strip(AfterFirst(action_text, ":"))
             res == TerminalTool_execute(cfg.enable_terminal, cmd, outcome)
         IN  [text  |-> IF res.success THEN CommandOutput \o res.output
                        ELSE CommandFailed \o res.error,
              calls |-> << Invocation(terminal, cmd, cfg.enable_terminal, res) >>]
    ELSE IF StartsWithAt(action_text, 1, internet \o << ":" >>)
    THEN LET target == Strip(AfterFirst(action_text, ":"))
             res == InternetTool_get(cfg.enable_internet, target, outcome)
         IN  [text  |-> IF res.success
                        THEN ResponseTruncated \o Take(res.output, ActionResponseLimit)
                        ELSE RequestFailed \o res.error,
              calls |-> << Invocation(internet, target, cfg.enable_internet, res) >>]
    ELSE [text |-> UnknownAction \o action_text, calls |-> << >>]

_execute_action(action_text, cfg, outcome) ==
    LET action_lower == Lower(action_text)
    IN  IF action_lower = complete
        THEN [text |-> TaskMarkedComplete, calls |-> << >>]
        ELSE IF StartsWithAt(action_lower, 1, terminal \o << ":" >>)
        THEN LET cmd == Strip(AfterFirst(action_text, ":"))
                 res == TerminalTool_execute(cfg.enable_terminal, cmd, outcome)
             IN  [text  |-> IF res.success THEN CommandOutput \o res.output
                            ELSE CommandFailed \o res.error,
                  calls |-> << Invocation(terminal, cmd, cfg.enable_terminal, res) >>]
        ELSE IF StartsWithAt(action_lower, 1, internet \o << ":" >>)
        THEN LET target == Strip(AfterFirst(action_text, ":"))
                 res == InternetTool_get(cfg.enable_internet, target, outcome)
             IN  [text  |-> IF res.success
                            THEN ResponseTruncated \o Take(res.output, ActionResponseLimit)
                            ELSE RequestFailed \o res.error,
                  calls |-> << Invocation(internet, target, cfg.enable_internet, res) >>]
        ELSE [text |-> UnknownAction \o action_text, calls |-> << >>]

(***************************************************************************)
(* Agent.create_task_list, agent.py:294-307: the tasks of a generated text.*)
(***************************************************************************)
\* a variant of Task that numbers every task 1
TaskNumberedOne(id, description) ==
    [id |-> 1, description |-> description, status |-> "pending"]

\* agent.py:17-22
Task(id, description) == [id |-> id, description |-> description, status |-> "pending"]

\* agent.py:295-296
AssistantPart(task_text) ==
    IF Contains(task_text, im_start_assistant)
    THEN Strip(SplitLast(task_text, im_start_assistant))
    ELSE task_text

\* a variant of IsTaskLine that accepts a task line of any one-digit number
IsTaskLineAnyNumber(line, i) ==
    /\ Strip(line) # << >>
    /\ \E n \in 0..9 : StartsWithAt(Strip(line), 1, TaskPrefix \o IntToStr(n) \o << ":" >>)

\* agent.py:301: the line at position i (from 1) is a task line
IsTaskLine(line, i) ==
    /\ Strip(line) # << >>
    /\ StartsWithAt(Strip(line), 1, TaskPrefix \o IntToStr(i) \o << ":" >>)

RECURSIVE TasksFrom(_, _)
\* agent.py:299-303: enumerate(lines, 1) from position i on
TasksFrom(lines, i) ==
    IF i > Len(lines) THEN << >>
    ELSE IF IsTaskLine(lines[i], i)
    THEN << Task(i, Strip(AfterFirst(lines[i], ":"))) >> \o TasksFrom(lines, i + 1)
    ELSE TasksFrom(lines, i + 1)

ParseTasks(task_text) == TasksFrom(SplitLines(AssistantPart(task_text)), 1)

(***************************************************************************)
(* Inputs: what the model engine, the shell and the network may answer.    *)
(***************************************************************************)
\* no call: 'The task is done.\n'
RespDone == <<"T","h","e"," ","t","a","s","k"," ","i","s"," ","d","o","n","e",".","\n">>

\* one unmarked terminal call: '[terminal(command="ls")]'
RespTerminal == <<"[","t","e","r","m","i","n","a","l","(","c","o","m","m","a","n","d","=","\"","l","s","\"",")","]">>

\* one marked internet call: '<|tool_call_start|>[internet(url="http://x")]<|tool_call_end|>'
RespInternet == <<"<","|","t","o","o","l","_","c","a","l","l","_","s","t","a","r","t","|",">","[","i","n","t","e","r","n","e","t","(","u","r","l","=","\"","h","t","t","p",":","/","/","x","\"",")","]","<","|","t","o","o","l","_","c","a","l","l","_","e","n","d","|",">">>

\* two marked calls, internet then terminal: '<|tool_call_start|>[internet(url="http://x")]<|tool_call_end|> <|tool_call_start|>[terminal(command="ls")]<|tool_call_end|>'
RespBoth == <<"<","|","t","o","o","l","_","c","a","l","l","_","s","t","a","r","t","|",">","[","i","n","t","e","r","n","e","t","(","u","r","l","=","\"","h","t","t","p",":","/","/","x","\"",")","]","<","|","t","o","o","l","_","c","a","l","l","_","e","n","d","|",">"," ","<","|","t","o","o","l","_","c","a","l","l","_","s","t","a","r","t","|",">","[","t","e","r","m","i","n","a","l","(","c","o","m","m","a","n","d","=","\"","l","s","\"",")","]","<","|","t","o","o","l","_","c","a","l","l","_","e","n","d","|",">">>

\* a terminal call without its command: '[terminal()]'
RespNoCommand == <<"[","t","e","r","m","i","n","a","l","(",")","]">>

\* a call of an unknown tool: '[foo(x="1")]'
RespUnknown == <<"[","f","o","o","(","x","=","\"","1","\"",")","]">>

\* the text of a regeneration: ' ls -l\n'
FinalLs == <<" ","l","s"," ","-","l","\n">>

\* no task line: 'I cannot plan.'
Plan0 == <<"I"," ","c","a","n","n","o","t"," ","p","l","a","n",".">>

\* one task: 'Task 1: A'
Plan1 == <<"T","a","s","k"," ","1",":"," ","A">>

\* two tasks: ' Task 1: A\nTask 2: B '
Plan2 == <<" ","T","a","s","k"," ","1",":"," ","A","\n","T","a","s","k"," ","2",":"," ","B"," ">>

\* the second line is numbered 3: 'Task 1: A\nTask 3: B'
Plan13 == <<"T","a","s","k"," ","1",":"," ","A","\n","T","a","s","k"," ","3",":"," ","B">>

\* the first line continues the prompt's 'Task 1:': ' A\nTask 2: B'
PlanJ2 == <<" ","A","\n","T","a","s","k"," ","2",":"," ","B">>

\* an echoed assistant marker: 'x<|im_start|>assistant\nTask 1: A'
PlanAsst == <<"x","<","|","i","m","_","s","t","a","r","t","|",">","a","s","s","i","s","t","a","n","t","\n","T","a","s","k"," ","1",":"," ","A">>

\* a goal: 'list files'
Goal1 == <<"l","i","s","t"," ","f","i","l","e","s">>

\* stdout of a command: 'a.py\n'
StdoutText == <<"a",".","p","y","\n">>

\* stderr of a command: 'not found\n'
StderrText == <<"n","o","t"," ","f","o","u","n","d","\n">>

\* body of a response: '<html>'
BodyText == <<"<","h","t","m","l",">">>

\* str(e) of a RequestException: '404 Client Error'
HttpErrorText == <<"4","0","4"," ","C","l","i","e","n","t"," ","E","r","r","o","r">>

\* texts the engine may return for a reasoning step's first generation
Responses == {RespDone, RespTerminal, RespInternet, RespBoth, RespNoCommand, RespUnknown}

\* texts the engine may return for a regeneration
FinalResponses == {FinalLs}

\* texts the engine may return for the planner's generation
PlanTexts == {Plan0, Plan1, Plan2, Plan13, PlanAsst}

Goals == {Goal1}

\* subprocess.run's outcomes, tools.py:50-81
TerminalOutcomes ==
    { [kind |-> "exit", returncode |-> 0, stdout |-> StdoutText, stderr |-> << >>],
      [kind |-> "exit", returncode |-> 1, stdout |-> << >>, stderr |-> StderrText],
      [kind |-> "timeout"] }

\* requests.get's outcomes, tools.py:114-135
InternetOutcomes ==
    { [kind |-> "ok", text |-> BodyText],
      [kind |-> "error", text |-> HttpErrorText] }

OutcomesOf(name) == IF Lower(name) = internet THEN InternetOutcomes ELSE TerminalOutcomes

\* the largest max_iterations, the largest max_reasoning_steps and the number
\* of run calls explored
MaxIterationsBound == 2

MaxReasoningStepsBound == 2

MaxRuns == 2

\* config.py:24-27
SettingsSpace ==
    [max_iterations      : (0 - 1)..MaxIterationsBound,
     max_reasoning_steps : 0..MaxReasoningStepsBound,
     enable_terminal     : BOOLEAN,
     enable_internet     : BOOLEAN]

(***************************************************************************)
(* State.                                                                  *)
(***************************************************************************)
VARIABLES
    settings,         \* Agent.settings
    model_loaded,     \* LLMEngine._model is not None
    tasks,            \* Agent.tasks, the list run iterates over
    reasoning_steps,  \* Agent.reasoning_steps
    iteration_count,  \* Agent.iteration_count
    pc,               \* where the current call on the agent stands
    goal,             \* run's argument
    task_index,       \* position in "for task in tasks" (0 before the first)
    step_num,         \* step_num of "for step_num in range(...)"
    tool_calls,       \* reason_and_act's tool_calls
    call_index,       \* position in "for tool_call in tool_calls"
    observation,      \* reason_and_act's observation
    action,           \* reason_and_act's action
    returned,         \* << >>, or << the dictionary run returned >>
    raised,           \* the call that raised last, "" if none did
    runs,             \* calls of run so far
    generations,      \* generation calls of this run: of the planner, of the steps
    step_generations, \* generation calls since the loop head was last passed
    step_calls,       \* tool calls parsed since the loop head was last passed
    resets,           \* model.reset() calls of this run
    invocations,      \* adapter invocations since the loop head was last passed
    run_steps,        \* reasoning steps started by this run
    \* one call of _parse_tool_calls made on its own, agent.py:114-225
    parser_source,     \* what the response was written from
    parser_response,   \* response
    parser_pc,         \* where the call stands
    parser_matches,    \* matches
    parser_match,      \* position in "for match in matches"
    parser_func_name,  \* func_name
    parser_args_str,   \* args_str
    parser_i,          \* i, counted from 1
    parser_args,       \* args
    parser_tool_calls, \* tool_calls
    \* one call of an adapter or of a dispatcher made on its own
    tool_request,      \* the callee and its arguments
    tool_result,       \* << >>, or << what the call returned >>
    tool_pc,           \* where the call stands
    \* the task extraction of create_task_list made on its own, agent.py:294-307
    planner_source,    \* what the generated text was written from
    planner_text,      \* task_text
    planner_lines,     \* task_text.split("\n")
    planner_i,         \* i of enumerate(..., 1)
    planner_tasks,     \* tasks
    planner_pc         \* where the extraction stands

agent_vars == << settings, model_loaded, tasks, reasoning_steps, iteration_count >>

frame_vars == << pc, goal, task_index, step_num, returned, raised, runs >>

step_vars == << tool_calls, call_index, observation, action >>

count_vars == << generations, step_generations, step_calls, resets, invocations, run_steps >>

parser_vars ==
    << parser_source, parser_response, parser_pc, parser_matches, parser_match,
       parser_func_name, parser_args_str, parser_i, parser_args, parser_tool_calls >>

tool_vars == << tool_request, tool_result, tool_pc >>

planner_vars ==
    << planner_source, planner_text, planner_lines, planner_i, planner_tasks, planner_pc >>

harness_vars == << parser_vars, tool_vars, planner_vars >>

vars == << agent_vars, frame_vars, step_vars, count_vars, harness_vars >>

\* agent.py:25-30
ReasoningStep(thought, act, obs) ==
    [thought |-> thought, action |-> act, observation |-> obs]

\* no call of the parser on its own is being followed
ParserUnused ==
    /\ parser_source = << >>
    /\ parser_response = << >>
    /\ parser_pc = "unused"
    /\ parser_matches = << >>
    /\ parser_match = 0
    /\ parser_func_name = << >>
    /\ parser_args_str = << >>
    /\ parser_i = 0
    /\ parser_args = << >>
    /\ parser_tool_calls = << >>

\* no call of an adapter or dispatcher on its own is being followed
ToolUnused ==
    /\ tool_request = << >>
    /\ tool_result = << >>
    /\ tool_pc = "unused"

\* no task extraction on its own is being followed
PlannerUnused ==
    /\ planner_source = << >>
    /\ planner_text = << >>
    /\ planner_lines = << >>
    /\ planner_i = 0
    /\ planner_tasks = << >>
    /\ planner_pc = "unused"

\* agent.py:80-87: the agent as constructed, no call made on it yet
Constructed ==
    /\ model_loaded = FALSE
    /\ tasks = << >>
    /\ reasoning_steps = << >>
    /\ iteration_count = 0
    /\ pc = "idle"
    /\ goal = << >>
    /\ task_index = 0
    /\ step_num = 0
    /\ tool_calls = << >>
    /\ call_index = 0
    /\ observation = << >>
    /\ action = << >>
    /\ returned = << >>
    /\ raised = ""
    /\ runs = 0
    /\ generations = [planner |-> 0, steps |-> 0]
    /\ step_generations = 0
    /\ step_calls = 0
    /\ resets = 0
    /\ invocations = << >>
    /\ run_steps = 0

Init ==
    /\ settings \in SettingsSpace
    /\ Constructed
    /\ ParserUnused
    /\ ToolUnused
    /\ PlannerUnused

\* no call of run is in progress
Idle == pc \in {"idle", "returned", "raised"}

CurrentTask == tasks[task_index]

LastStep == reasoning_steps[Len(reasoning_steps)]

\* a variant of SetStatus that writes the status of the tasks not yet
\* reached as well
SetStatusOnward(status) ==
    [i \in 1..Len(tasks) |->
         IF i >= task_index THEN [tasks[i] EXCEPT !.status = status] ELSE tasks[i]]

SetStatus(status) == [tasks EXCEPT ![task_index].status = status]

(***************************************************************************)
(* Operations.                                                             *)
(***************************************************************************)
\* Agent.load on an agent without a model, agent.py:89-93 and llm.py:24-40:
\* load_model raises FileNotFoundError before it assigns _model when the
\* artifact is missing
Load ==
    /\ Idle
    /\ ~model_loaded
    /\ \E artifact_exists \in BOOLEAN :
         /\ model_loaded' = artifact_exists
         /\ pc' = IF artifact_exists THEN "idle" ELSE "raised"
         /\ raised' = IF artifact_exists THEN "" ELSE "load"
    /\ UNCHANGED << settings, tasks, reasoning_steps, iteration_count >>
    /\ UNCHANGED << goal, task_index, step_num, returned, runs >>
    /\ UNCHANGED << step_vars, count_vars >>
    /\ UNCHANGED harness_vars

\* the frame of a new call of run
EnterRun(g) ==
    /\ Idle
    /\ runs < MaxRuns
    /\ runs' = runs + 1
    /\ goal' = g
    /\ returned' = << >>
    /\ task_index' = 0
    /\ step_num' = 0
    /\ tool_calls' = << >>
    /\ call_index' = 0
    /\ observation' = << >>
    /\ action' = << >>
    /\ step_generations' = 0
    /\ step_calls' = 0
    /\ invocations' = << >>
    /\ run_steps' = 0
    /\ UNCHANGED harness_vars

\* a variant of RunNotLoaded in which the planner's generation is issued
\* before the missing model is noticed
RunNotLoadedLate(g) ==
    /\ EnterRun(g)
    /\ ~model_loaded
    /\ pc' = "raised"
    /\ raised' = "model"
    /\ generations' = [planner |-> 1, steps |-> 0]
    /\ resets' = 1
    /\ UNCHANGED agent_vars

\* run on an agent whose model is not loaded: agent.py:472 and 279 reach
\* llm.py:52-53, which raises
RunNotLoaded(g) ==
    /\ EnterRun(g)
    /\ ~model_loaded
    /\ pc' = "raised"
    /\ raised' = "model"
    /\ generations' = [planner |-> 0, steps |-> 0]
    /\ resets' = 0
    /\ UNCHANGED agent_vars

\* create_task_list called on its own on an agent whose model is not loaded:
\* agent.py:279 reaches llm.py:52-53 before anything else is done
CreateTaskListNotLoaded(g) ==
    /\ Idle
    /\ ~model_loaded
    /\ pc' = "raised"
    /\ raised' = "model"
    /\ UNCHANGED << agent_vars, goal, task_index, step_num, returned, runs >>
    /\ UNCHANGED << step_vars, count_vars, harness_vars >>

\* reason_and_act called on its own on an agent whose model is not loaded:
\* agent.py:320 reaches llm.py:52-53 before anything else is done
ReasonAndActNotLoaded(current_task) ==
    /\ Idle
    /\ ~model_loaded
    /\ pc' = "raised"
    /\ raised' = "model"
    /\ UNCHANGED << agent_vars, goal, task_index, step_num, returned, runs >>
    /\ UNCHANGED << step_vars, count_vars, harness_vars >>

\* a variant of CreateTaskList in which run starts from fresh counters
CreateTaskListFresh(g, task_text) ==
    /\ EnterRun(g)
    /\ model_loaded
    /\ tasks' = ParseTasks(task_text)
    /\ pc' = "for_task"
    /\ raised' = ""
    /\ generations' = [planner |-> 1, steps |-> 0]
    /\ resets' = 1
    /\ iteration_count' = 0
    /\ reasoning_steps' = << >>
    /\ UNCHANGED << settings, model_loaded >>

\* run, agent.py:469-472, and create_task_list, agent.py:273-307
CreateTaskList(g, task_text) ==
    /\ EnterRun(g)
    /\ model_loaded
    /\ tasks' = ParseTasks(task_text)
    /\ pc' = "for_task"
    /\ raised' = ""
    /\ generations' = [planner |-> 1, steps |-> 0]
    /\ resets' = 1
    /\ UNCHANGED << settings, model_loaded, reasoning_steps, iteration_count >>

\* the planner's generation raises, agent.py:288 and llm.py:76
CreateTaskListRaises(g) ==
    /\ EnterRun(g)
    /\ model_loaded
    /\ pc' = "raised"
    /\ raised' = "planner"
    /\ generations' = [planner |-> 1, steps |-> 0]
    /\ resets' = 1
    /\ UNCHANGED agent_vars

\* a variant of MarkInProgress that leaves the status alone
MarkNothing == tasks

\* agent.py:477: task.status = "in-progress", for the task the loop moves to
MarkInProgress == [tasks EXCEPT ![task_index + 1].status = "in-progress"]

\* agent.py:475-477: the next task of the for loop
StartTask ==
    /\ pc = "for_task"
    /\ task_index < Len(tasks)
    /\ task_index' = task_index + 1
    /\ tasks' = MarkInProgress
    /\ step_num' = 0
    /\ pc' = "for_step"
    /\ UNCHANGED << settings, model_loaded, reasoning_steps, iteration_count >>
    /\ UNCHANGED << goal, returned, raised, runs, step_vars, count_vars >>
    /\ UNCHANGED harness_vars

\* a variant of MaxIterationsHit that stops one step late
MaxIterationsPassed == iteration_count > settings.max_iterations

\* a variant of MaxIterationsHit that never stops
MaxIterationsIgnored == FALSE

\* agent.py:481: if self.iteration_count >= self.settings.max_iterations
MaxIterationsHit == iteration_count >= settings.max_iterations

\* agent.py:480: range(max_reasoning_steps) is exhausted
StepBudgetExhausted ==
    /\ pc = "for_step"
    /\ step_num >= settings.max_reasoning_steps
    /\ pc' = "after_loop"
    /\ step_generations' = 0
    /\ step_calls' = 0
    /\ invocations' = << >>
    /\ UNCHANGED << agent_vars, goal, task_index, step_num, returned, raised, runs >>
    /\ UNCHANGED << step_vars, generations, resets, run_steps >>
    /\ UNCHANGED harness_vars

\* agent.py:481-483
MaxIterationsReached ==
    /\ pc = "for_step"
    /\ step_num < settings.max_reasoning_steps
    /\ MaxIterationsHit
    /\ pc' = "after_loop"
    /\ step_generations' = 0
    /\ step_calls' = 0
    /\ invocations' = << >>
    /\ UNCHANGED << agent_vars, goal, task_index, step_num, returned, raised, runs >>
    /\ UNCHANGED << step_vars, generations, resets, run_steps >>
    /\ UNCHANGED harness_vars

\* agent.py:485-486 and 318-320: a reasoning step starts
BeginStep ==
    /\ pc = "for_step"
    /\ step_num < settings.max_reasoning_steps
    /\ ~MaxIterationsHit
    /\ iteration_count' = iteration_count + 1
    /\ pc' = "generate"
    /\ tool_calls' = << >>
    /\ call_index' = 0
    /\ observation' = << >>
    /\ action' = << >>
    /\ step_generations' = 0
    /\ step_calls' = 0
    /\ invocations' = << >>
    /\ UNCHANGED << settings, model_loaded, tasks, reasoning_steps >>
    /\ UNCHANGED << goal, task_index, step_num, returned, raised, runs >>
    /\ run_steps' = run_steps + 1
    /\ UNCHANGED << generations, resets >>
    /\ UNCHANGED harness_vars

\* reason_and_act's locals are gone: it returned or raised
DropLocals ==
    /\ tool_calls' = << >>
    /\ call_index' = 0
    /\ observation' = << >>
    /\ action' = << >>

\* a variant of IssueGeneration without the reset
IssueGenerationNoReset ==
    /\ resets' = resets
    /\ generations' = [generations EXCEPT !.steps = @ + 1]
    /\ step_generations' = step_generations + 1
    /\ UNCHANGED run_steps

\* a generation call is issued: model.reset() and then generate
IssueGeneration ==
    /\ resets' = resets + 1
    /\ generations' = [generations EXCEPT !.steps = @ + 1]
    /\ step_generations' = step_generations + 1
    /\ UNCHANGED run_steps

\* reason_and_act, agent.py:320-354 and 395-405: the first generation, the
\* parse, and either the recorded step (no call) or the calls to execute
Generate(text) ==
    /\ pc = "generate"
    /\ IssueGeneration
    /\ LET full_response == Strip(text)
           calls == _parse_tool_calls(full_response)
       IN  /\ step_calls' = Len(calls)
           /\ IF calls = << >>
              THEN /\ reasoning_steps' =
                          Append(reasoning_steps,
                                 ReasoningStep(full_response, complete,
                                               TaskReasoningCompleted))
                   /\ DropLocals
                   /\ pc' = "dispatch"
              ELSE /\ tool_calls' = calls
                   /\ call_index' = 1
                   /\ action' = complete
                   /\ observation' = << >>
                   /\ pc' = "tools"
                   /\ UNCHANGED reasoning_steps
    /\ UNCHANGED << settings, model_loaded, tasks, iteration_count >>
    /\ UNCHANGED << goal, task_index, step_num, returned, raised, runs, invocations >>
    /\ UNCHANGED harness_vars

\* the first generation raises, agent.py:343 and llm.py:76: nothing in
\* reason_and_act or run catches it
GenerateRaises ==
    /\ pc = "generate"
    /\ IssueGeneration
    /\ pc' = "raised"
    /\ raised' = "generate"
    /\ DropLocals
    /\ UNCHANGED << agent_vars, goal, task_index, step_num, returned, runs >>
    /\ UNCHANGED << step_calls, invocations >>
    /\ UNCHANGED harness_vars

\* a variant of ExecuteToolCall in which the action is the name of the first
\* call, not of the last
ExecuteToolCallFirstName ==
    /\ pc = "tools"
    /\ \E outcome \in OutcomesOf(tool_calls[call_index].name) :
         LET tool_call == tool_calls[call_index]
             result == _execute_tool_call(tool_call, settings, outcome)
         IN  /\ observation' = observation \o << "\n" >> \o tool_call.name
                                           \o << ":", " " >> \o result.text
             /\ action' = tool_calls[1].name
             /\ invocations' = invocations \o result.calls
    /\ call_index' = call_index + 1
    /\ pc' = IF call_index = Len(tool_calls) THEN "regenerate" ELSE "tools"
    /\ UNCHANGED << agent_vars, goal, task_index, step_num, returned, raised, runs >>
    /\ UNCHANGED << tool_calls, generations, step_generations, step_calls, resets, run_steps >>
    /\ UNCHANGED harness_vars

\* agent.py:360-365: one pass of "for tool_call in tool_calls"
ExecuteToolCall ==
    /\ pc = "tools"
    /\ \E outcome \in OutcomesOf(tool_calls[call_index].name) :
         LET tool_call == tool_calls[call_index]
             result == _execute_tool_call(tool_call, settings, outcome)
         IN  /\ observation' = observation \o << "\n" >> \o tool_call.name
                                           \o << ":", " " >> \o result.text
             /\ action' = tool_call.name
             /\ invocations' = invocations \o result.calls
    /\ call_index' = call_index + 1
    /\ pc' = IF call_index = Len(tool_calls) THEN "regenerate" ELSE "tools"
    /\ UNCHANGED << agent_vars, goal, task_index, step_num, returned, raised, runs >>
    /\ UNCHANGED << tool_calls, generations, step_generations, step_calls, resets, run_steps >>
    /\ UNCHANGED harness_vars

\* a variant of Regenerate that records the step without a second generation
RegenerateSkipped(text) ==
    /\ pc = "regenerate"
    /\ reasoning_steps' = Append(reasoning_steps,
                                 ReasoningStep(Strip(text), action, observation))
    /\ DropLocals
    /\ pc' = "dispatch"
    /\ UNCHANGED << settings, model_loaded, tasks, iteration_count >>
    /\ UNCHANGED << goal, task_index, step_num, returned, raised, runs >>
    /\ UNCHANGED << count_vars, harness_vars >>

\* agent.py:384-405: the regeneration and the recorded step
Regenerate(text) ==
    /\ pc = "regenerate"
    /\ IssueGeneration
    /\ reasoning_steps' = Append(reasoning_steps,
                                 ReasoningStep(Strip(text), action, observation))
    /\ DropLocals
    /\ pc' = "dispatch"
    /\ UNCHANGED << settings, model_loaded, tasks, iteration_count >>
    /\ UNCHANGED << goal, task_index, step_num, returned, raised, runs >>
    /\ UNCHANGED << step_calls, invocations >>
    /\ UNCHANGED harness_vars

\* the regeneration raises, agent.py:388 and llm.py:76
RegenerateRaises ==
    /\ pc = "regenerate"
    /\ IssueGeneration
    /\ pc' = "raised"
    /\ raised' = "regenerate"
    /\ DropLocals
    /\ UNCHANGED << agent_vars, goal, task_index, step_num, returned, runs >>
    /\ UNCHANGED << step_calls, invocations >>
    /\ UNCHANGED harness_vars

\* a variant of DispatchComplete without the break of agent.py:506
DispatchCompleteNoBreak ==
    /\ pc = "dispatch"
    /\ LastStep.action = complete
    /\ reasoning_steps' =
           [reasoning_steps EXCEPT ![Len(reasoning_steps)].observation = TaskMarkedComplete]
    /\ tasks' = SetStatus("completed")
    /\ step_num' = step_num + 1
    /\ pc' = "for_step"
    /\ UNCHANGED << settings, model_loaded, iteration_count >>
    /\ UNCHANGED << goal, task_index, returned, raised, runs >>
    /\ UNCHANGED << step_vars, count_vars >>
    /\ UNCHANGED harness_vars

\* a variant of DispatchComplete that writes the observation of the first
\* recorded step
DispatchCompleteFirstStep ==
    /\ pc = "dispatch"
    /\ LastStep.action = complete
    /\ reasoning_steps' =
           [reasoning_steps EXCEPT ![1].observation = TaskMarkedComplete]
    /\ tasks' = SetStatus("completed")
    /\ pc' = "after_loop"
    /\ UNCHANGED << settings, model_loaded, iteration_count >>
    /\ UNCHANGED << goal, task_index, step_num, returned, raised, runs >>
    /\ UNCHANGED << step_vars, count_vars >>
    /\ UNCHANGED harness_vars

\* agent.py:501-506: the step object is the one appended to reasoning_steps
DispatchComplete ==
    /\ pc = "dispatch"
    /\ LastStep.action = complete
    /\ reasoning_steps' =
           [reasoning_steps EXCEPT ![Len(reasoning_steps)].observation = TaskMarkedComplete]
    /\ tasks' = SetStatus("completed")
    /\ pc' = "after_loop"
    /\ UNCHANGED << settings, model_loaded, iteration_count >>
    /\ UNCHANGED << goal, task_index, step_num, returned, raised, runs >>
    /\ UNCHANGED << step_vars, count_vars >>
    /\ UNCHANGED harness_vars

\* agent.py:512: "failed", looked for in step.observation.lower()
FailureMark == << "f", "a", "i", "l", "e", "d" >>

\* a variant of DispatchAction that stays at the same step_num
DispatchActionSameStep ==
    /\ pc = "dispatch"
    /\ LastStep.action # complete
    /\ \E outcome \in OutcomesOf(LastStep.action) :
         LET result == _execute_action(LastStep.action \o << ":", " " >> \o LastStep.thought,
                                       settings, outcome)
         IN  /\ reasoning_steps' =
                    [reasoning_steps EXCEPT ![Len(reasoning_steps)].observation = result.text]
             /\ invocations' = invocations \o result.calls
    /\ pc' = "for_step"
    /\ UNCHANGED << settings, model_loaded, tasks, iteration_count >>
    /\ UNCHANGED << goal, task_index, step_num, returned, raised, runs >>
    /\ UNCHANGED << step_vars, generations, step_generations, step_calls, resets, run_steps >>
    /\ UNCHANGED harness_vars

\* a variant of DispatchAction that fails the task and leaves its loop when
\* the observation of agent.py:512 reports a failure
DispatchActionFailing ==
    /\ pc = "dispatch"
    /\ LastStep.action # complete
    /\ \E outcome \in OutcomesOf(LastStep.action) :
         LET result == _execute_action(LastStep.action \o << ":", " " >> \o LastStep.thought,
                                       settings, outcome)
             failing == Contains(Lower(result.text), FailureMark)
         IN  /\ reasoning_steps' =
                    [reasoning_steps EXCEPT ![Len(reasoning_steps)].observation = result.text]
             /\ invocations' = invocations \o result.calls
             /\ tasks' = IF failing THEN SetStatus("failed") ELSE tasks
             /\ step_num' = IF failing THEN step_num ELSE step_num + 1
             /\ pc' = IF failing THEN "after_loop" ELSE "for_step"
    /\ UNCHANGED << settings, model_loaded, iteration_count >>
    /\ UNCHANGED << goal, task_index, returned, raised, runs >>
    /\ UNCHANGED << step_vars, generations, step_generations, step_calls, resets, run_steps >>
    /\ UNCHANGED harness_vars

\* a variant of DispatchAction that leaves the step's observation as
\* reason_and_act wrote it
DispatchActionKeepsObservation ==
    /\ pc = "dispatch"
    /\ LastStep.action # complete
    /\ \E outcome \in OutcomesOf(LastStep.action) :
         LET result == _execute_action(LastStep.action \o << ":", " " >> \o LastStep.thought,
                                       settings, outcome)
         IN  invocations' = invocations \o result.calls
    /\ step_num' = step_num + 1
    /\ pc' = "for_step"
    /\ UNCHANGED << agent_vars, goal, task_index, returned, raised, runs >>
    /\ UNCHANGED << step_vars, generations, step_generations, step_calls, resets, run_steps >>
    /\ UNCHANGED harness_vars

\* a variant of DispatchAction that marks the task completed after a tool
\* action and leaves the loop
DispatchActionCompleting ==
    /\ pc = "dispatch"
    /\ LastStep.action # complete
    /\ \E outcome \in OutcomesOf(LastStep.action) :
         LET result == _execute_action(LastStep.action \o << ":", " " >> \o LastStep.thought,
                                       settings, outcome)
         IN  /\ reasoning_steps' =
                    [reasoning_steps EXCEPT ![Len(reasoning_steps)].observation = result.text]
             /\ invocations' = invocations \o result.calls
    /\ tasks' = SetStatus("completed")
    /\ step_num' = step_num + 1
    /\ pc' = "after_loop"
    /\ UNCHANGED << settings, model_loaded, iteration_count >>
    /\ UNCHANGED << goal, task_index, returned, raised, runs >>
    /\ UNCHANGED << step_vars, generations, step_generations, step_calls, resets, run_steps >>
    /\ UNCHANGED harness_vars

\* agent.py:489-500 and 508-513: every branch for another action calls
\* _execute_action(f"{step.action}: {step.thought}") and stores its text;
\* then the next pass of the for loop
DispatchAction ==
    /\ pc = "dispatch"
    /\ LastStep.action # complete
    /\ \E outcome \in OutcomesOf(LastStep.action) :
         LET result == _execute_action(LastStep.action \o << ":", " " >> \o LastStep.thought,
                                       settings, outcome)
         IN  /\ reasoning_steps' =
                    [reasoning_steps EXCEPT ![Len(reasoning_steps)].observation = result.text]
             /\ invocations' = invocations \o result.calls
    /\ step_num' = step_num + 1
    /\ pc' = "for_step"
    /\ UNCHANGED << settings, model_loaded, tasks, iteration_count >>
    /\ UNCHANGED << goal, task_index, returned, raised, runs >>
    /\ UNCHANGED << step_vars, generations, step_generations, step_calls, resets, run_steps >>
    /\ UNCHANGED harness_vars

\* a variant of FailUnlessCompleted that marks nothing
FailNever == tasks

\* a variant of FailUnlessCompleted that marks every task failed
FailAlways == SetStatus("failed")

\* agent.py:515-516: if task.status != "completed": task.status = "failed"
FailUnlessCompleted ==
    IF CurrentTask.status # "completed" THEN SetStatus("failed") ELSE tasks

\* agent.py:515-516
EndTask ==
    /\ pc = "after_loop"
    /\ tasks' = FailUnlessCompleted
    /\ pc' = "for_task"
    /\ UNCHANGED << settings, model_loaded, reasoning_steps, iteration_count >>
    /\ UNCHANGED << goal, task_index, step_num, returned, raised, runs >>
    /\ UNCHANGED << step_vars, count_vars >>
    /\ UNCHANGED harness_vars

\* a variant of Results whose success also asks for at least one task
ResultsSomeTask ==
    [goal            |-> goal,
     tasks           |-> tasks,
     reasoning_steps |-> reasoning_steps,
     iterations      |-> iteration_count,
     success         |-> /\ tasks # << >>
                         /\ \A i \in 1..Len(tasks) : tasks[i].status = "completed"]

\* a variant of Results whose success asks for one completed task only
ResultsAny ==
    [goal            |-> goal,
     tasks           |-> tasks,
     reasoning_steps |-> reasoning_steps,
     iterations      |-> iteration_count,
     success         |-> \E i \in 1..Len(tasks) : tasks[i].status = "completed"]

\* agent.py:520-526
Results ==
    [goal            |-> goal,
     tasks           |-> tasks,
     reasoning_steps |-> reasoning_steps,
     iterations      |-> iteration_count,
     success         |-> \A i \in 1..Len(tasks) : tasks[i].status = "completed"]

\* a variant of TasksExhausted that leaves the loop one task early
TasksExhaustedEarly == task_index >= Len(tasks) - 1

\* agent.py:475: "for task in self.tasks" has no task left
TasksExhausted == task_index = Len(tasks)

\* agent.py:475 and 519-529: the for loop is over and run returns
Return ==
    /\ pc = "for_task"
    /\ TasksExhausted
    /\ returned' = << Results >>
    /\ pc' = "returned"
    /\ UNCHANGED << agent_vars, goal, task_index, step_num, raised, runs >>
    /\ UNCHANGED << step_vars, count_vars >>
    /\ UNCHANGED harness_vars

Next ==
    \/ Load
    \/ \E g \in Goals : RunNotLoaded(g)
    \/ \E g \in Goals : CreateTaskListNotLoaded(g)
    \/ \E current_task \in {Task(1, Goal1)} : ReasonAndActNotLoaded(current_task)
    \/ \E g \in Goals, task_text \in PlanTexts : CreateTaskList(g, task_text)
    \/ \E g \in Goals : CreateTaskListRaises(g)
    \/ StartTask
    \/ StepBudgetExhausted
    \/ MaxIterationsReached
    \/ BeginStep
    \/ \E text \in Responses : Generate(text)
    \/ GenerateRaises
    \/ ExecuteToolCall
    \/ \E text \in FinalResponses : Regenerate(text)
    \/ RegenerateRaises
    \/ DispatchComplete
    \/ DispatchAction
    \/ EndTask
    \/ Return

Spec == Init /\ [][Next]_vars

(***************************************************************************)
(* _parse_tool_calls on its own, agent.py:114-225, one step per pass of    *)
(* its loops, on responses written from a description of the calls they    *)
(* hold (the call syntax of the system prompt, agent.py:108-110).          *)
(***************************************************************************)
\* a value: 'ls'
ValLs == <<"l","s">>

\* a value: 'http://x'
ValUrl == <<"h","t","t","p",":","/","/","x">>

\* a value holding single quotes: 'x 'y''
ValNestedSingle == <<"x"," ","'","y","'">>

\* a value holding double quotes: 'x "y"'
ValNestedDouble == <<"x"," ","\"","y","\"">>

\* a value holding an escaped double quote: 'a\"b'
ValEscaped == <<"a","\\","\"","b">>

\* a value holding ")]": 'a)]b'
ValCut == <<"a",")","]","b">>

\* the name of no tool: 'foo'
NameFoo == <<"f","o","o">>

\* the name of a tool, capitalised: 'Terminal'
NameTerminalCapital == <<"T","e","r","m","i","n","a","l">>

\* prose: 'This task is complete.'
ProseDone == <<"T","h","i","s"," ","t","a","s","k"," ","i","s"," ","c","o","m","p","l","e","t","e",".">>

\* bracketed prose: '[this is just text]'
ProseBracket == <<"[","t","h","i","s"," ","i","s"," ","j","u","s","t"," ","t","e","x","t","]">>

\* a call without brackets: 'terminal(command="ls")'
ProseNoBracket == <<"t","e","r","m","i","n","a","l","(","c","o","m","m","a","n","d","=","\"","l","s","\"",")">>

\* a bracketed name without parentheses: '[terminal]'
ProseBareName == <<"[","t","e","r","m","i","n","a","l","]">>

\* the same between markers: '<|tool_call_start|>[terminal]<|tool_call_end|>'
ProseMarkedBareName == <<"<","|","t","o","o","l","_","c","a","l","l","_","s","t","a","r","t","|",">","[","t","e","r","m","i","n","a","l","]","<","|","t","o","o","l","_","c","a","l","l","_","e","n","d","|",">">>

\* prose before a call: 'Do: '
PrefixDo == <<"D","o",":"," ">>

\* one key=value pair as written: the key, the quote character, the value
Pair(key, quote, value) == [key |-> key, quote |-> quote, value |-> value]

\* one call as written: its name, its well-formed pairs, and what follows them
Call(name, pairs, tail) == [name |-> name, pairs |-> pairs, tail |-> tail]

PairLists ==
    { << >>,
      << Pair(command, "\"", ValLs) >>,
      << Pair(command, "'", ValLs) >>,
      << Pair(url, "\"", ValUrl) >>,
      << Pair(command, "\"", ValNestedSingle) >>,
      << Pair(command, "'", ValNestedDouble) >>,
      << Pair(command, "\"", ValEscaped) >>,
      << Pair(command, "\"", ValCut) >>,
      << Pair(command, "\"", ValLs), Pair(url, "'", ValUrl) >> }

CallNames == {terminal, internet, NameFoo, NameTerminalCapital}

\* after a pair, a key that no "=" follows: ', x y'
TailJunk == << ",", " ", "x", " ", "y" >>

\* after a pair, a value that no quote opens: ', x=1'
TailUnquoted == << ",", " ", "x", "=", "1" >>

\* with no pair before it, a value that no quote opens: 'x=1'
TailUnquotedOnly == << "x", "=", "1" >>

MalformedTails == { TailJunk, TailUnquoted, TailUnquotedOnly }

\* the first call of a response
FirstCalls ==
    { Call(name, pairs, << >>) : name \in CallNames, pairs \in PairLists }
    \cup { Call(terminal, << Pair(command, "\"", ValLs) >>, TailJunk),
           Call(terminal, << Pair(command, "\"", ValLs) >>, TailUnquoted),
           Call(terminal, << >>, TailUnquotedOnly),
           Call(terminal, << Pair(<< >>, "\"", ValLs) >>, << >>) }

\* the calls after the first
FollowCalls ==
    { Call(internet, << Pair(url, "\"", ValUrl) >>, << >>),
      Call(terminal, << Pair(command, "'", ValLs) >>, << >>),
      Call(NameFoo, << Pair(command, "\"", ValLs) >>, << >>) }

\* texts without a call
ProseTexts ==
    { << >>, ProseDone, ProseBracket, ProseNoBracket, ProseBareName, ProseMarkedBareName }

Prefixes == { << >>, PrefixDo }

\* the most calls in one response
MaxCalls == 2

RECURSIVE FollowSeqs(_)
\* the sequences of at most n calls after the first
FollowSeqs(n) ==
    IF n = 0 THEN { << >> }
    ELSE LET shorter == FollowSeqs(n - 1)
         IN  shorter \cup { Append(q, c) : q \in { r \in shorter : Len(r) = n - 1 },
                                           c \in FollowCalls }

CallSeqs == { << c >> \o f : c \in FirstCalls, f \in FollowSeqs(MaxCalls - 1) }

\* what a response is written from: prose, then calls, all marked or none
ParserSources ==
    { [prose |-> p, marked |-> FALSE, calls |-> << >>] : p \in ProseTexts }
    \cup { src \in [prose : Prefixes, marked : BOOLEAN, calls : CallSeqs] :
               Len(src.calls) = 1 \/ src.prose = << >> }

RenderPair(p) == p.key \o << "=", p.quote >> \o p.value \o << p.quote >>

RECURSIVE RenderPairs(_)
RenderPairs(pairs) ==
    IF pairs = << >> THEN << >>
    ELSE IF Len(pairs) = 1 THEN RenderPair(pairs[1])
    ELSE RenderPair(pairs[1]) \o << ",", " " >> \o RenderPairs(Tail(pairs))

RenderCall(c) == c.name \o << "(" >> \o RenderPairs(c.pairs) \o c.tail \o << ")" >>

RenderBracket(marked, c) ==
    IF marked
    THEN tool_call_start \o << "[" >> \o RenderCall(c) \o << "]" >> \o tool_call_end
    ELSE << "[" >> \o RenderCall(c) \o << "]" >>

RECURSIVE RenderCalls(_, _)
RenderCalls(marked, calls) ==
    IF calls = << >> THEN << >>
    ELSE IF Len(calls) = 1 THEN RenderBracket(marked, calls[1])
    ELSE RenderBracket(marked, calls[1]) \o << "\n" >> \o RenderCalls(marked, Tail(calls))

RenderSource(src) == src.prose \o RenderCalls(src.marked, src.calls)

\* texts with one marked match: a bare name, a call of foo, a call of internet
MarkedPrefixes ==
    { ProseMarkedBareName \o << " " >>,
      RenderBracket(TRUE, Call(NameFoo, << Pair(command, "\"", ValLs) >>, << >>)) \o << "\n" >>,
      RespInternet \o << "\n" >> }

\* a marked match, then one call written without markers
MixedSources ==
    { [prose |-> p, marked |-> FALSE, calls |-> << c >>] :
          p \in MarkedPrefixes, c \in FollowCalls }

\* config.py:24-27, the defaults
DefaultSettings ==
    [max_iterations |-> 10, max_reasoning_steps |-> 5,
     enable_terminal |-> TRUE, enable_internet |-> TRUE]

\* agent.py:129: the parser is entered with a response
ParserInit ==
    /\ settings = DefaultSettings
    /\ Constructed
    /\ ToolUnused
    /\ PlannerUnused
    /\ parser_source \in ParserSources \cup MixedSources
    /\ parser_response = RenderSource(parser_source)
    /\ parser_pc = "findall"
    /\ parser_matches = << >>
    /\ parser_match = 0
    /\ parser_func_name = << >>
    /\ parser_args_str = << >>
    /\ parser_i = 0
    /\ parser_args = << >>
    /\ parser_tool_calls = << >>

\* what a step of the parser leaves alone
ParserFrame ==
    UNCHANGED << agent_vars, frame_vars, step_vars, count_vars, tool_vars,
                 planner_vars, parser_source, parser_response >>

\* agent.py:131-145: the two findall passes
FindMatches ==
    /\ parser_pc = "findall"
    /\ parser_matches' = Candidates(parser_response)
    /\ parser_match' = 1
    /\ parser_pc' = "for_match"
    /\ UNCHANGED << parser_func_name, parser_args_str, parser_i, parser_args,
                    parser_tool_calls >>
    /\ ParserFrame

\* agent.py:147-165: the next match; one that is no name(args) is skipped
MatchCandidate ==
    /\ parser_pc = "for_match"
    /\ parser_match <= Len(parser_matches)
    /\ LET func_match == FuncMatch(parser_matches[parser_match])
       IN  IF func_match.ok
           THEN /\ parser_func_name' = func_match.func_name
                /\ parser_args_str' = func_match.args_str
                /\ parser_i' = 1
                /\ parser_args' = EmptyDict
                /\ parser_pc' = "scan"
                /\ UNCHANGED parser_match
           ELSE /\ parser_match' = parser_match + 1
                /\ UNCHANGED << parser_func_name, parser_args_str, parser_i,
                                parser_args, parser_pc >>
    /\ UNCHANGED << parser_matches, parser_tool_calls >>
    /\ ParserFrame

\* agent.py:166-216: one iteration of the scanner's outer loop
ScanStep ==
    /\ parser_pc = "scan"
    /\ LET r == ScanIteration(parser_args_str, parser_i, parser_args)
       IN  /\ parser_i' = r.i
           /\ parser_args' = r.args
           /\ parser_pc' = IF r.stop THEN "append" ELSE "scan"
    /\ UNCHANGED << parser_matches, parser_match, parser_func_name, parser_args_str,
                    parser_tool_calls >>
    /\ ParserFrame

\* agent.py:218-223: the call is kept if it names a tool
AppendCall ==
    /\ parser_pc = "append"
    /\ parser_tool_calls' =
           IF KnownTool(parser_func_name)
           THEN Append(parser_tool_calls,
                       [name |-> parser_func_name, args |-> parser_args])
           ELSE parser_tool_calls
    /\ parser_match' = parser_match + 1
    /\ parser_pc' = "for_match"
    /\ UNCHANGED << parser_matches, parser_func_name, parser_args_str, parser_i,
                    parser_args >>
    /\ ParserFrame

\* agent.py:225: return tool_calls
ParserReturn ==
    /\ parser_pc = "for_match"
    /\ parser_match > Len(parser_matches)
    /\ parser_pc' = "done"
    /\ UNCHANGED << parser_matches, parser_match, parser_func_name, parser_args_str,
                    parser_i, parser_args, parser_tool_calls >>
    /\ ParserFrame

ParserNext ==
    \/ FindMatches
    \/ MatchCandidate
    \/ ScanStep
    \/ AppendCall
    \/ ParserReturn

ParserSpec == ParserInit /\ [][ParserNext]_vars

(***************************************************************************)
(* Agent._execute_tool_call and the adapters of tools.py, each called once *)
(* on a constructed agent: the call and the enabled flags are drawn by the *)
(* initial state, the answer of the shell or the network by the action.    *)
(***************************************************************************)
\* 'warning'
StderrWarning == <<"w","a","r","n","i","n","g">>

\* subprocess.run's outcomes, tools.py:50-81: also a failure that wrote
\* nothing to stderr, a success that wrote to stderr, and an exception
TerminalAnswers ==
    TerminalOutcomes
    \cup { [kind |-> "exit", returncode |-> 1, stdout |-> << >>, stderr |-> << >>],
           [kind |-> "exit", returncode |-> 0, stdout |-> StdoutText, stderr |-> StderrWarning],
           [kind |-> "error", text |-> StderrText] }

\* the outcomes of requests.get and requests.post, tools.py:114-135 and 158-179
InternetAnswers == InternetOutcomes \cup { [kind |-> "timeout"] }

AnswersOf(name) == IF Lower(name) = internet THEN InternetAnswers ELSE TerminalAnswers

\* the args of a structured call
DispatchArgs ==
    { EmptyDict,
      DictSet(EmptyDict, command, << >>),
      DictSet(EmptyDict, command, ValLs),
      DictSet(EmptyDict, url, << >>),
      DictSet(EmptyDict, url, ValUrl),
      DictSet(DictSet(EmptyDict, command, ValLs), url, ValUrl) }

\* 'COMPLETE'
ActComplete == <<"C","O","M","P","L","E","T","E">>

\* 'Terminal:  ls '
ActTerminal == <<"T","e","r","m","i","n","a","l",":"," "," ","l","s"," ">>

\* 'terminal:'
ActTerminalEmpty == <<"t","e","r","m","i","n","a","l",":">>

\* 'terminal'
ActTerminalBare == <<"t","e","r","m","i","n","a","l">>

\* ' terminal: ls'
ActTerminalLate == <<" ","t","e","r","m","i","n","a","l",":"," ","l","s">>

\* 'INTERNET:http://x'
ActInternet == <<"I","N","T","E","R","N","E","T",":","h","t","t","p",":","/","/","x">>

\* 'reason: ls'
ActReason == <<"r","e","a","s","o","n",":"," ","l","s">>

\* action strings for _execute_action, agent.py:428
ActionTexts ==
    { complete, ActComplete, ActTerminal, ActTerminalEmpty, ActTerminalBare,
      ActTerminalLate, ActInternet, ActReason, << >>,
      terminal \o << ":", " " >> \o ValLs, internet \o << ":", " " >> \o ValUrl }

ToolRequests ==
    { [op |-> "dispatch", tool_call |-> [name |-> name, args |-> args], arg |-> << >>] :
          name \in CallNames, args \in DispatchArgs }
    \cup { [op |-> "action", tool_call |-> [name |-> << >>, args |-> EmptyDict],
            arg |-> action_text] : action_text \in ActionTexts }
    \cup { [op |-> op, tool_call |-> [name |-> << >>, args |-> EmptyDict], arg |-> arg] :
               op \in {"execute", "get", "post"}, arg \in {ValLs, ValUrl, << >>} }

\* config.py:26-27: the two enable flags
ToolSettings ==
    { [DefaultSettings EXCEPT !.enable_terminal = t, !.enable_internet = n] :
          t \in BOOLEAN, n \in BOOLEAN }

ToolInit ==
    /\ settings \in ToolSettings
    /\ Constructed
    /\ ParserUnused
    /\ PlannerUnused
    /\ tool_request \in ToolRequests
    /\ tool_result = << >>
    /\ tool_pc = "ready"

ToolFrame ==
    UNCHANGED << agent_vars, frame_vars, step_vars, count_vars, parser_vars,
                 planner_vars, tool_request >>

\* agent.py:227-262
DispatchToolCall ==
    /\ tool_pc = "ready"
    /\ tool_request.op = "dispatch"
    /\ \E outcome \in AnswersOf(tool_request.tool_call.name) :
           LET r == _execute_tool_call(tool_request.tool_call, settings, outcome)
           IN  tool_result' = [text |-> r.text, result |-> << >>, calls |-> r.calls]
    /\ tool_pc' = "returned"
    /\ ToolFrame

\* agent.py:428-458
ExecuteAction ==
    /\ tool_pc = "ready"
    /\ tool_request.op = "action"
    /\ \E outcome \in AnswersOf(Take(tool_request.arg, Len(internet))) :
           LET r == _execute_action(tool_request.arg, settings, outcome)
           IN  tool_result' = [text |-> r.text, result |-> << >>, calls |-> r.calls]
    /\ tool_pc' = "returned"
    /\ ToolFrame

\* tools.py:30-81
TerminalExecute ==
    /\ tool_pc = "ready"
    /\ tool_request.op = "execute"
    /\ \E outcome \in TerminalAnswers :
           LET res == TerminalTool_execute(settings.enable_terminal, tool_request.arg, outcome)
           IN  tool_result' =
                   [text |-> << >>, result |-> res,
                    calls |-> << Invocation(terminal, tool_request.arg,
                                            settings.enable_terminal, res) >>]
    /\ tool_pc' = "returned"
    /\ ToolFrame

\* tools.py:95-135
InternetGet ==
    /\ tool_pc = "ready"
    /\ tool_request.op = "get"
    /\ \E outcome \in InternetAnswers :
           LET res == InternetTool_get(settings.enable_internet, tool_request.arg, outcome)
           IN  tool_result' =
                   [text |-> << >>, result |-> res,
                    calls |-> << Invocation(internet, tool_request.arg,
                                            settings.enable_internet, res) >>]
    /\ tool_pc' = "returned"
    /\ ToolFrame

\* tools.py:137-179
InternetPost ==
    /\ tool_pc = "ready"
    /\ tool_request.op = "post"
    /\ \E outcome \in InternetAnswers :
           LET res == InternetTool_post(settings.enable_internet, tool_request.arg, outcome)
           IN  tool_result' =
                   [text |-> << >>, result |-> res,
                    calls |-> << Invocation(internet, tool_request.arg,
                                            settings.enable_internet, res) >>]
    /\ tool_pc' = "returned"
    /\ ToolFrame

ToolNext ==
    \/ DispatchToolCall
    \/ ExecuteAction
    \/ TerminalExecute
    \/ InternetGet
    \/ InternetPost

ToolSpec == ToolInit /\ [][ToolNext]_vars

(***************************************************************************)
(* The task extraction of create_task_list on its own, agent.py:294-307,   *)
(* one step per line, on generated texts written from their lines.         *)
(***************************************************************************)
\* 'Task 1: A'
LineTask1 == <<"T","a","s","k"," ","1",":"," ","A">>

\* 'Task 2: B'
LineTask2 == <<"T","a","s","k"," ","2",":"," ","B">>

\* 'Task 3: B'
LineTask3 == <<"T","a","s","k"," ","3",":"," ","B">>

\* a task line inside blanks, no blank after its colon and a colon in its
\* description: '  Task 2:C: d '
LineTask2Padded == <<" "," ","T","a","s","k"," ","2",":","C",":"," ","d"," ">>

\* 'task 1: A'
LineLowerCase == <<"t","a","s","k"," ","1",":"," ","A">>

\* 'Here is the plan'
LineJunk == <<"H","e","r","e"," ","i","s"," ","t","h","e"," ","p","l","a","n">>

\* ' '
LineBlank == <<" ">>

PlanLines ==
    {LineTask1, LineTask2, LineTask3, LineTask2Padded, LineLowerCase, LineJunk, LineBlank}

\* the largest number of lines of a generated text
MaxLines == 3

RECURSIVE LineSeqs(_)
LineSeqs(n) ==
    IF n = 0 THEN { << >> }
    ELSE LET shorter == LineSeqs(n - 1)
         IN  shorter \cup { Append(ls, l) : ls \in { x \in shorter : Len(x) = n - 1 },
                                            l \in PlanLines }

\* a generated text: its lines, and whether the engine echoed the prompt up
\* to its assistant marker before them
PlannerSources == [lines : LineSeqs(MaxLines) \ { << >> }, echoed : BOOLEAN]

RECURSIVE JoinLines(_)
\* "\n".join(lines)
JoinLines(lines) ==
    IF lines = << >> THEN << >>
    ELSE IF Len(lines) = 1 THEN lines[1]
    ELSE lines[1] \o << "\n" >> \o JoinLines(Tail(lines))

RenderPlan(src) ==
    IF src.echoed
    THEN LineJunk \o im_start_assistant \o << "\n" >> \o JoinLines(src.lines)
    ELSE JoinLines(src.lines)

PlannerInit ==
    /\ settings = DefaultSettings
    /\ Constructed
    /\ ParserUnused
    /\ ToolUnused
    /\ planner_source \in PlannerSources
    /\ planner_text = RenderPlan(planner_source)
    /\ planner_lines = << >>
    /\ planner_i = 0
    /\ planner_tasks = << >>
    /\ planner_pc = "extract"

PlannerFrame ==
    UNCHANGED << settings, model_loaded, reasoning_steps, iteration_count,
                 frame_vars, step_vars, count_vars, parser_vars, tool_vars,
                 planner_source, planner_text >>

RECURSIVE DropBlank(_)
\* the lines that are not blank
DropBlank(lines) ==
    IF lines = << >> THEN << >>
    ELSE IF Strip(lines[1]) = << >> THEN DropBlank(Tail(lines))
    ELSE << lines[1] >> \o DropBlank(Tail(lines))

\* a variant of SplitGenerated that numbers the lines that are not blank
SplitGeneratedNonBlank ==
    /\ planner_pc = "extract"
    /\ planner_lines' = DropBlank(SplitLines(AssistantPart(planner_text)))
    /\ planner_i' = 1
    /\ planner_pc' = "for_line"
    /\ UNCHANGED << planner_tasks, tasks >>
    /\ PlannerFrame

\* agent.py:294-299: the generated part and its lines
SplitGenerated ==
    /\ planner_pc = "extract"
    /\ planner_lines' = SplitLines(AssistantPart(planner_text))
    /\ planner_i' = 1
    /\ planner_pc' = "for_line"
    /\ UNCHANGED << planner_tasks, tasks >>
    /\ PlannerFrame

\* agent.py:300-303: a task line gives a task
AcceptLine ==
    /\ planner_pc = "for_line"
    /\ planner_i <= Len(planner_lines)
    /\ IsTaskLine(planner_lines[planner_i], planner_i)
    /\ planner_tasks' =
           Append(planner_tasks,
                  Task(planner_i, Strip(AfterFirst(planner_lines[planner_i], ":"))))
    /\ planner_i' = planner_i + 1
    /\ UNCHANGED << planner_lines, planner_pc, tasks >>
    /\ PlannerFrame

\* agent.py:300-301: any other line gives nothing
SkipLine ==
    /\ planner_pc = "for_line"
    /\ planner_i <= Len(planner_lines)
    /\ ~IsTaskLine(planner_lines[planner_i], planner_i)
    /\ planner_i' = planner_i + 1
    /\ UNCHANGED << planner_lines, planner_tasks, planner_pc, tasks >>
    /\ PlannerFrame

\* agent.py:305-307: self.tasks = tasks; return tasks
PlannerReturn ==
    /\ planner_pc = "for_line"
    /\ planner_i > Len(planner_lines)
    /\ tasks' = planner_tasks
    /\ planner_pc' = "done"
    /\ UNCHANGED << planner_lines, planner_i, planner_tasks >>
    /\ PlannerFrame

PlannerNext ==
    \/ SplitGenerated
    \/ AcceptLine
    \/ SkipLine
    \/ PlannerReturn

PlannerSpec == PlannerInit /\ [][PlannerNext]_vars


(***************************************************************************)
(* Properties of run, agent.py:460-529.                                    *)
(***************************************************************************)
Terminal == {"completed", "failed"}

InProgress == {i \in 1..Len(tasks) : tasks[i].status = "in-progress"}

\* the pcs between the start of a task and the end of its per-task loop
InTaskLoop == pc \in {"for_step", "generate", "tools", "regenerate", "dispatch"}

\* max_iterations, or 0 when it is negative
IterationBudget == IF settings.max_iterations < 0 THEN 0 ELSE settings.max_iterations

\* the status changes of one task that the loop makes
StatusMoves ==
    { << "pending", "pending" >>, << "in-progress", "in-progress" >>,
      << "completed", "completed" >>, << "failed", "failed" >>,
      << "pending", "in-progress" >>,
      << "in-progress", "completed" >>, << "in-progress", "failed" >> }

\* some adapter invocation of the current step returned a failure result
SomeInvocationFailed == \E k \in 1..Len(invocations) : ~invocations[k].success

HasFailureText(text) == Contains(Lower(text), FailureMark)

\* C1: when run returns, the success of the result is true exactly when
\* every task of the returned task list has status completed.
C1_SuccessIffAllCompleted ==
    returned # << >> =>
        /\ returned[1].tasks = tasks
        /\ returned[1].success =
               (\A i \in 1..Len(tasks) : tasks[i].status = "completed")

\* run returned a list with a completed and a failed task, and no success
C1_Witness ==
    /\ returned # << >>
    /\ Len(tasks) = 2
    /\ tasks[1].status = "completed"
    /\ tasks[2].status = "failed"
    /\ ~returned[1].success

\* C2: whenever run returns, every task of the returned list is completed
\* or failed; none is left pending or in-progress.
C2_ReturnedTasksTerminal ==
    returned # << >> =>
        \A i \in 1..Len(returned[1].tasks) : returned[1].tasks[i].status \in Terminal

\* run returned after a task used up its step budget of two steps
C2_Witness ==
    /\ returned # << >>
    /\ Len(tasks) = 1
    /\ tasks[1].status = "failed"
    /\ step_num = 2
    /\ settings.max_reasoning_steps = 2

\* C3: iteration_count never decreases and, for max_iterations >= 0, never
\* exceeds max_iterations; a reasoning step starts only while
\* iteration_count < max_iterations, and each started step, and nothing
\* else, adds exactly one to it.
C3_IterationCountBounded ==
    [][ /\ iteration_count' >= iteration_count
        /\ settings.max_iterations >= 0 => iteration_count' <= settings.max_iterations
        /\ (pc = "for_step" /\ pc' = "generate") =>
               /\ iteration_count < settings.max_iterations
               /\ iteration_count' = iteration_count + 1
        /\ iteration_count' # iteration_count => (pc = "for_step" /\ pc' = "generate")
      ]_vars

\* the loop stands at its head with the whole budget of two iterations used
C3_Witness ==
    /\ pc = "for_step"
    /\ settings.max_iterations = 2
    /\ iteration_count = 2
    /\ step_num < settings.max_reasoning_steps

\* C4, as stated: during one run the loop issues at most max_iterations
\* generation calls.
C4_Original ==
    settings.max_iterations >= 0 => generations.steps <= settings.max_iterations

\* C4, amended: during one run the loop starts at most max_iterations
\* reasoning steps, and a step with tool calls generates twice, so the loop
\* issues at most 2 * max_iterations generation calls (none for a negative
\* max_iterations); the planner's call is not counted.
C4_GenerationsBounded ==
    generations.steps <= 2 * IterationBudget

\* two steps with tool calls issued four generation calls
C4_Witness ==
    /\ settings.max_iterations = 2
    /\ generations.steps = 4

\* C5: during a run a task's status only moves pending -> in-progress ->
\* completed or failed: a terminal status is never left, nothing moves
\* backward, and pending never becomes terminal directly.  Between runs the
\* task list is untouched or replaced by a list of pending tasks.
C5_StatusMoves ==
    [][ IF Idle
        THEN \/ tasks' = tasks
             \/ \A i \in 1..Len(tasks') : tasks'[i].status = "pending"
        ELSE /\ Len(tasks') = Len(tasks)
             /\ \A i \in 1..Len(tasks) :
                    << tasks[i].status, tasks'[i].status >> \in StatusMoves
      ]_vars

\* the first task failed, the second was completed and its loop was left
C5_Witness ==
    /\ pc = "after_loop"
    /\ task_index = 2
    /\ tasks[1].status = "failed"
    /\ tasks[2].status = "completed"

\* C6, as stated: at every point during a run exactly one task is
\* in-progress.
C6_Original ==
    ~Idle => Cardinality(InProgress) = 1

\* C6, amended: at every point at most one task is in-progress; between the
\* start of a task and the end of its per-task loop exactly one is, the
\* current task; before the first task, between two tasks and after the
\* last one (and in an empty plan) none is.
C6_OneInProgress ==
    /\ Cardinality(InProgress) <= 1
    /\ InTaskLoop => InProgress = {task_index}
    /\ pc = "for_task" => InProgress = {}

\* the second task is in-progress and a step of it is generating
C6_Witness ==
    /\ pc = "generate"
    /\ task_index = 2
    /\ InProgress = {2}
    /\ tasks[1].status \in Terminal

\* C7: when a task's loop is left because the step budget or the iteration
\* budget is used up, no step is run and no generation issued on the way
\* out, and the task, having no complete step, is marked failed; a task
\* that starts with the iteration budget used up fails in this way with
\* zero steps and zero generation calls.
C7_BudgetExitFails ==
    [][ /\ ( /\ pc = "for_step"
             /\ \/ step_num >= settings.max_reasoning_steps
                \/ iteration_count >= settings.max_iterations )
           => /\ pc' = "after_loop"
              /\ UNCHANGED << tasks, reasoning_steps, iteration_count, generations >>
        /\ (pc = "after_loop" /\ CurrentTask.status # "completed")
           => /\ pc' = "for_task"
              /\ tasks'[task_index].status = "failed"
              /\ UNCHANGED << reasoning_steps, iteration_count, generations >>
      ]_vars

\* the first task's one step used the whole budget and completed it; the
\* second task failed without a step or a generation call
C7_Witness ==
    /\ pc = "for_task"
    /\ task_index = 2
    /\ settings.max_iterations = 1
    /\ settings.max_reasoning_steps >= 1
    /\ tasks[1].status = "completed"
    /\ tasks[2].status = "failed"
    /\ Len(reasoning_steps) = 1
    /\ generations.steps = 1

\* C8: a step whose response parses to zero tool calls is recorded with
\* action complete; the loop then marks the task completed and leaves the
\* task's loop, and a step only ever starts for an in-progress task, so the
\* task gets no further step.
C8_NoCallCompletes ==
    [][ /\ (pc = "generate" /\ step_calls' = 0 /\ pc' # "raised")
           => /\ pc' = "dispatch"
              /\ Len(reasoning_steps') = Len(reasoning_steps) + 1
              /\ reasoning_steps'[Len(reasoning_steps')].action = complete
        /\ (pc = "dispatch" /\ step_calls = 0)
           => /\ pc' = "after_loop"
              /\ tasks'[task_index].status = "completed"
        /\ (pc = "after_loop" /\ CurrentTask.status = "completed")
           => /\ pc' = "for_task"
              /\ tasks'[task_index].status = "completed"
        /\ pc' = "generate" => tasks'[task_index'].status = "in-progress"
      ]_vars

\* a task was completed by its second step, which parsed no call
C8_Witness ==
    /\ pc = "after_loop"
    /\ step_calls = 0
    /\ step_generations = 1
    /\ step_num = 1
    /\ CurrentTask.status = "completed"

\* C9, as stated: a generation call that fails during a reasoning step does
\* not abort the loop; run is never left by an exception of a step's
\* generation.
C9_GenerationFailureSurvives ==
    ~(pc = "raised" /\ raised \in {"generate", "regenerate"})

\* C10, as stated: after a step in which an adapter returned a failure
\* result, the task is still in-progress, the loop goes on, and the step of
\* the trace carries the failure as its observation text.
C10_Original ==
    (pc = "for_step" /\ step_generations = 2 /\ SomeInvocationFailed)
        => /\ CurrentTask.status = "in-progress"
           /\ HasFailureText(LastStep.observation)

\* C10, amended: a failure result of an adapter raises nothing and does not
\* fail the task: the step that reason_and_act records carries the failure
\* text in its observation, run then replaces that observation by the text
\* of its own re-execution of the action, so the step of the trace carries
\* failure text exactly when that last invocation failed, and the loop goes
\* on to its next pass with the task in-progress.
C10_ToolFailureSurvives ==
    /\ (pc = "dispatch" /\ SomeInvocationFailed)
           => /\ CurrentTask.status = "in-progress"
              /\ HasFailureText(LastStep.observation)
    /\ (pc = "for_step" /\ step_generations = 2)
           => /\ CurrentTask.status = "in-progress"
              /\ invocations # << >>
              /\ HasFailureText(LastStep.observation)
                     <=> ~invocations[Len(invocations)].success
    \* no step fails a task: only the end of the per-task loop does
    /\ pc = "after_loop" => CurrentTask.status # "failed"
    /\ raised \notin {"tools", "dispatch"}

\* a structured call failed, the re-execution succeeded, and the loop is at
\* its head again
C10_Witness ==
    /\ pc = "for_step"
    /\ step_generations = 2
    /\ Len(invocations) = 2
    /\ ~invocations[1].success
    /\ invocations[2].success
    /\ CurrentTask.status = "in-progress"

\* C11: a call of run, create_task_list or reason_and_act on an agent whose
\* model is not loaded raises with no generation issued, no model reset and
\* no adapter invoked, and leaves tasks, reasoning_steps and iteration_count
\* as they were; a load that fails for a missing artifact leaves the model
\* unloaded.
C11_NotLoadedRaisesFirst ==
    [][ /\ (~model_loaded /\ ~model_loaded' /\ raised' # "load")
           => /\ pc' = "raised"
              /\ raised' = "model"
              /\ UNCHANGED << tasks, reasoning_steps, iteration_count >>
              /\ generations' = [planner |-> 0, steps |-> 0]
              /\ resets' = 0
              /\ invocations' = << >>
        /\ (~model_loaded /\ raised' = "load")
           => /\ pc' = "raised"
              /\ ~model_loaded'
              /\ UNCHANGED << tasks, reasoning_steps, iteration_count, count_vars >>
      ]_vars

\* a load failed and a run on the unloaded agent raised afterwards
C11_Witness ==
    /\ pc = "raised"
    /\ raised = "model"
    /\ ~model_loaded
    /\ runs = 1
    /\ tasks = << >>
    /\ generations.planner = 0

(***************************************************************************)
(* Properties of _parse_tool_calls, agent.py:114-225.                      *)
(***************************************************************************)
RECURSIVE PairsAsArgs(_)
\* the args that a call's written pairs stand for, a later pair of a key
\* replacing an earlier one
PairsAsArgs(pairs) ==
    IF pairs = << >> THEN EmptyDict
    ELSE LET last == pairs[Len(pairs)]
         IN  DictSet(PairsAsArgs(SubSeq(pairs, 1, Len(pairs) - 1)), last.key, last.value)

WrittenCall(c) == [name |-> c.name, args |-> PairsAsArgs(c.pairs)]

NamesATool(c) == c.name = terminal \/ c.name = internet

RECURSIVE WrittenToolCalls(_)
\* the written calls that name a tool, in the order written
WrittenToolCalls(calls) ==
    IF calls = << >> THEN << >>
    ELSE IF NamesATool(calls[1])
    THEN << WrittenCall(calls[1]) >> \o WrittenToolCalls(Tail(calls))
    ELSE WrittenToolCalls(Tail(calls))

\* "[", a name, "(", and later ")" and "]": a bracketed name(args) pattern
HasBracketCall(s) ==
    \E p \in 1..Len(s) :
        /\ s[p] = "["
        /\ LET n == SkipWhile(s, p + 1, SpaceChars)
               w == SkipWhile(s, n, WordChars)
               b == SkipWhile(s, w, SpaceChars)
           IN  /\ w > n
               /\ b <= Len(s)
               /\ s[b] = "("
               /\ \E q \in (b + 1)..Len(s) :
                      s[q] = ")" /\ \E r \in (q + 1)..Len(s) : s[r] = "]"

\* C12: every call the parser returns is named exactly terminal or internet;
\* a written call of any other name, such as foo or Terminal, adds nothing
\* to the result.
C12_OnlyToolNames ==
    /\ \A k \in 1..Len(parser_tool_calls) :
           parser_tool_calls[k].name \in {terminal, internet}
    /\ (parser_pc = "done" /\ parser_source.calls # << >>
        /\ parser_source.prose \in Prefixes)
           => Len(parser_tool_calls) =
                  Cardinality({ k \in 1..Len(parser_source.calls) :
                                    NamesATool(parser_source.calls[k]) })

\* a response with a Terminal call and a terminal call gave one call
C12_Witness ==
    /\ parser_pc = "done"
    /\ Len(parser_source.calls) = 2
    /\ parser_source.calls[1].name = NameTerminalCapital
    /\ parser_source.calls[2].name = terminal
    /\ Len(parser_tool_calls) = 1

\* C13: for a response without a bracketed name(args) pattern (the empty
\* text, prose, bracketed prose) the parser returns the empty sequence.
C13_NoPatternNoCall ==
    /\ ~HasBracketCall(parser_response) => parser_tool_calls = << >>
    /\ parser_source.calls = << >> => ~HasBracketCall(parser_response)

\* the parser returned from '[this is just text]' with nothing
C13_Witness ==
    /\ parser_pc = "done"
    /\ parser_response = ProseBracket
    /\ parser_tool_calls = << >>

\* C14: for a response of several marked calls the parser returns the calls
\* that name a tool, one per marked call and in the order written, each
\* with exactly the pairs written between its own parentheses.
C14_MarkedCallsInOrder ==
    (parser_pc = "done" /\ parser_source.marked /\ Len(parser_source.calls) >= 2)
        => parser_tool_calls = WrittenToolCalls(parser_source.calls)

\* two marked calls gave a terminal call with a command only and an internet
\* call with a url only
C14_Witness ==
    /\ parser_pc = "done"
    /\ parser_source.marked
    /\ Len(parser_tool_calls) = 2
    /\ parser_tool_calls[1].name = terminal
    /\ DOMAIN parser_tool_calls[1].args = {command}
    /\ parser_tool_calls[2].name = internet
    /\ DOMAIN parser_tool_calls[2].args = {url}

\* the response is [terminal(command=Qv Q)] alone, v without a quote character
\* or a backslash
QuoteFormOf(v) ==
    /\ parser_source.prose = << >>
    /\ ~parser_source.marked
    /\ Len(parser_source.calls) = 1
    /\ parser_source.calls[1].name = terminal
    /\ parser_source.calls[1].tail = << >>
    /\ Len(parser_source.calls[1].pairs) = 1
    /\ parser_source.calls[1].pairs[1].key = command
    /\ parser_source.calls[1].pairs[1].value = v
    /\ \A k \in 1..Len(v) : v[k] \notin QuoteChars \cup {"\\"}

\* the same source with the other quote character around its value
OtherQuote(src) ==
    [src EXCEPT !.calls[1].pairs[1].quote = IF @ = "'" THEN "\"" ELSE "'"]

\* C15, as stated: for every value v without a quote character or a
\* backslash, [terminal(command='v')] and [terminal(command="v")] parse to
\* the same single call, whose args map command to v.
C15_QuoteKindIndependence ==
    \A v \in {ValLs, ValUrl, ValCut} :
        (parser_pc = "done" /\ QuoteFormOf(v))
            => /\ parser_tool_calls =
                      << [name |-> terminal, args |-> DictSet(EmptyDict, command, v)] >>
               /\ _parse_tool_calls(RenderSource(OtherQuote(parser_source)))
                      = parser_tool_calls

\* C16: when the scanner stores a value, the value is the text after the
\* opening quote, verbatim, up to the next occurrence of that same quote
\* character that no backslash precedes (up to the end of the blob if there
\* is none): a quote character of the other kind is kept in the value and
\* does not end it.
C16_NestedQuotesKept ==
    [][ (parser_pc = "scan" /\ parser_pc' = "scan")
        => \E key \in DOMAIN parser_args' :
             \E open \in parser_i..Len(parser_args_str) :
               LET value == parser_args'[key]
                   close == open + Len(value) + 1
               IN  /\ parser_i' = close + 1
                   /\ parser_args_str[open] \in QuoteChars
                   /\ value = SubSeq(parser_args_str, open + 1, close - 1)
                   /\ \A c \in (open + 1)..(close - 1) :
                          ~(parser_args_str[c] = parser_args_str[open]
                            /\ parser_args_str[c - 1] # "\\")
                   /\ close <= Len(parser_args_str)
                          => /\ parser_args_str[close] = parser_args_str[open]
                             /\ parser_args_str[close - 1] # "\\"
      ]_vars

\* the value x 'y', written between double quotes, was returned whole
C16_Witness ==
    /\ parser_pc = "done"
    /\ Len(parser_tool_calls) = 1
    /\ command \in DOMAIN parser_tool_calls[1].args
    /\ parser_tool_calls[1].args[command] = ValNestedSingle

\* C17, as stated: for a call text c with quoted argument values, the
\* unmarked form [c] parses to the same calls as the marked form.
C17_MarkerIndependence ==
    (parser_pc = "done" /\ Len(parser_source.calls) = 1
     /\ parser_source.prose \in Prefixes
     /\ parser_source.calls[1].tail = << >>)
        => _parse_tool_calls(RenderSource([parser_source EXCEPT !.marked = ~@]))
               = parser_tool_calls

\* C18: the parser is total: every pass of the scanner's outer loop ends the
\* loop or strictly advances the index, which never passes the end of the
\* blob by more than two; the loop over the matches never passes the last
\* match by more than one; and what the parser returns is the sequence of
\* calls of _parse_tool_calls.
C18_ParserTotal ==
    /\ parser_pc = "scan"
           => LET r == ScanIteration(parser_args_str, parser_i, parser_args)
              IN  r.stop \/ r.i > parser_i
    /\ parser_pc \in {"scan", "append"}
           => parser_i \in 1..(Len(parser_args_str) + 2)
    /\ parser_pc \in {"for_match", "scan", "append", "done"}
           => parser_match \in 1..(Len(parser_matches) + 1)
    /\ parser_pc = "done" => parser_tool_calls = _parse_tool_calls(parser_response)

\* the scanner read a pair, stopped at a key without "=", and the parser
\* returned the call
C18_Witness ==
    /\ parser_pc = "done"
    /\ Len(parser_source.calls) = 1
    /\ parser_source.calls[1].tail = TailJunk
    /\ parser_i <= Len(parser_args_str)
    /\ Len(parser_tool_calls) >= 1

(***************************************************************************)
(* Properties of _execute_tool_call and of the adapters.                   *)
(***************************************************************************)
Dispatched == tool_pc = "returned" /\ tool_request.op = "dispatch"

\* the call names the tool and has no value, or an empty one, for the key
LacksArgument(tool, key) ==
    /\ Lower(tool_request.tool_call.name) = tool
    /\ \/ key \notin DOMAIN tool_request.tool_call.args
       \/ tool_request.tool_call.args[key] = << >>

\* C19: a terminal call without a command, or with an empty one, returns
\* 'Error: command parameter required', an internet call without a url, or
\* with an empty one, returns 'Error: url parameter required', and neither
\* invokes an adapter.
C19_MissingArgumentRejected ==
    /\ (Dispatched /\ LacksArgument(terminal, command))
           => tool_result.text = ErrCommandRequired /\ tool_result.calls = << >>
    /\ (Dispatched /\ LacksArgument(internet, url))
           => tool_result.text = ErrUrlRequired /\ tool_result.calls = << >>

\* a terminal call whose only argument is a url was rejected, both tools
\* enabled
C19_Witness ==
    /\ Dispatched
    /\ tool_request.tool_call.name = terminal
    /\ DOMAIN tool_request.tool_call.args = {url}
    /\ settings.enable_terminal
    /\ tool_result.text = ErrCommandRequired
    /\ tool_result.calls = << >>

AdapterReturned == tool_pc = "returned" /\ tool_request.op \in {"execute", "get", "post"}

AdapterEnabled ==
    IF tool_request.op = "execute" THEN settings.enable_terminal
    ELSE settings.enable_internet

\* C20: a ToolResult returned by TerminalTool.execute, InternetTool.get or
\* InternetTool.post has an error other than None exactly when its success
\* is false; a disabled adapter returns success false, an empty output and
\* its 'disabled' error, and spawns no process and sends no request.
C20_ErrorIffFailure ==
    AdapterReturned
        => /\ tool_result.result.error # None <=> ~tool_result.result.success
           /\ ~AdapterEnabled
                  => /\ ~tool_result.result.success
                     /\ tool_result.result.output = << >>
                     /\ tool_result.result.error =
                            IF tool_request.op = "execute" THEN TerminalDisabled
                            ELSE InternetDisabled
                     /\ \A k \in 1..Len(tool_result.calls) :
                            ~tool_result.calls[k].performed

\* an enabled terminal adapter spawned a process and returned a success
\* without an error
C20_Witness ==
    /\ AdapterReturned
    /\ tool_request.op = "execute"
    /\ settings.enable_terminal
    /\ tool_result.result.success
    /\ tool_result.result.error = None
    /\ tool_result.calls[1].performed

(***************************************************************************)
(* Properties of the task extraction of create_task_list.                  *)
(***************************************************************************)
\* the line, trimmed, begins with 'Task n:'
BeginsWithTaskNumber(line, n) ==
    LET t == Strip(line)
        prefix == TaskPrefix \o IntToStr(n) \o << ":" >>
    IN  Len(t) >= Len(prefix) /\ SubSeq(t, 1, Len(prefix)) = prefix

\* the text after the first colon of the line, trimmed
DescriptionOf(line) ==
    LET first == CHOOSE c \in 1..Len(line) :
                     line[c] = ":" /\ \A k \in 1..(c - 1) : line[k] # ":"
    IN  Strip(SubSeq(line, first + 1, Len(line)))

\* C21: the line at position p of the generated text adds a task exactly
\* when, trimmed, it begins with 'Task p:'; the task has id p, the trimmed
\* text after the line's first colon as description and status pending; any
\* other line adds nothing.  'Task 1: A' followed by 'Task 3: B' gives one
\* task, with id 1 and description 'A'.
C21_TaskLineByPosition ==
    /\ [][ (planner_pc = "for_line" /\ planner_i <= Len(planner_lines))
           => LET line == planner_lines[planner_i]
              IN  planner_tasks' =
                      IF BeginsWithTaskNumber(line, planner_i)
                      THEN Append(planner_tasks,
                                  [id          |-> planner_i,
                                   description |-> DescriptionOf(line),
                                   status      |-> "pending"])
                      ELSE planner_tasks
         ]_vars
    /\ [](planner_pc = "done" /\ planner_text = Plan13
              => tasks = << [id |-> 1, description |-> << "A" >>, status |-> "pending"] >>)

\* 'Task 1: A\nTask 3: B' gave the one task
C21_Witness ==
    /\ planner_pc = "done"
    /\ planner_text = Plan13
    /\ Len(tasks) = 1
    /\ tasks[1].id = 1

\* C22, as stated: the number required of a line is one more than the number
\* of lines accepted before it, so a line is accepted exactly when, trimmed,
\* it begins with 'Task i:' for that running count, whatever was skipped.
C22_Original ==
    [][ (planner_pc = "for_line" /\ planner_i <= Len(planner_lines))
        => (planner_tasks' # planner_tasks
               <=> BeginsWithTaskNumber(planner_lines[planner_i], Len(planner_tasks) + 1))
      ]_vars

\* C22, amended: the number required of a line is its position among all the
\* lines of the generated text, skipped and blank lines counted, so every
\* skipped line shifts the number required of the lines after it: the plan
\* has a task of id k exactly when line k, trimmed, begins with 'Task k:'.
C22_NumberIsLinePosition ==
    (planner_pc = "done" /\ ~planner_source.echoed)
        => /\ \A k \in 1..Len(planner_source.lines) :
                  (\E j \in 1..Len(tasks) : tasks[j].id = k)
                      <=> BeginsWithTaskNumber(planner_source.lines[k], k)
           /\ \A j \in 1..Len(tasks) : tasks[j].id \in 1..Len(planner_source.lines)

\* after a blank line, 'Task 1: A' was skipped and 'Task 3: B' gave task 3
C22_Witness ==
    /\ planner_pc = "done"
    /\ planner_source = [lines |-> << LineBlank, LineTask1, LineTask3 >>, echoed |-> FALSE]
    /\ Len(tasks) = 1
    /\ tasks[1].id = 3

\* C23: the tasks of a plan have ids of at least 1 that strictly increase
\* along the list, hence pairwise distinct, and every task is pending when
\* the planner returns; the plan may be empty.
C23_PlanIdsIncrease ==
    /\ \A j \in 1..Len(planner_tasks) :
           /\ planner_tasks[j].id >= 1
           /\ planner_tasks[j].status = "pending"
           /\ j > 1 => planner_tasks[j].id > planner_tasks[j - 1].id
    /\ planner_pc = "done" => tasks = planner_tasks
    /\ planner_pc = "done" => tasks = ParseTasks(planner_text)

\* a plan of two tasks whose ids are 2 and 3
C23_Witness ==
    /\ planner_pc = "done"
    /\ Len(tasks) = 2
    /\ tasks[1].id = 2
    /\ tasks[2].id = 3

(***************************************************************************)
(* Properties of _execute_action.                                          *)
(***************************************************************************)
ActionReturned == tool_pc = "returned" /\ tool_request.op = "action"

\* the action string, in lower case, begins with the tool's name and a colon
NamesLoosely(tool) ==
    LET low == Lower(tool_request.arg)
        prefix == tool \o << ":" >>
    IN  Len(low) >= Len(prefix) /\ SubSeq(low, 1, Len(prefix)) = prefix

\* C24: _execute_action returns a text for every action string; it invokes
\* an adapter, once, exactly when the string begins with 'terminal:' or
\* 'internet:' in any case, and hands it the trimmed text after the first
\* colon; 'complete' gives 'Task marked as complete', any other string gives
\* 'Unknown action: ' and the string; with the tool disabled the text reports
\* the failure.
C24_LooseActionExecutor ==
    /\ ActionReturned
           => /\ tool_result.text # << >>
              /\ tool_result.calls # << >>
                      <=> (NamesLoosely(terminal) \/ NamesLoosely(internet))
              /\ \A tool \in {terminal, internet} :
                     NamesLoosely(tool)
                         => /\ Len(tool_result.calls) = 1
                            /\ tool_result.calls[1].tool = tool
                            /\ tool_result.calls[1].arg = DescriptionOf(tool_request.arg)
              /\ Lower(tool_request.arg) = complete
                     => tool_result.text = TaskMarkedComplete
              /\ (/\ ~NamesLoosely(terminal)
                  /\ ~NamesLoosely(internet)
                  /\ Lower(tool_request.arg) # complete)
                     => tool_result.text = UnknownAction \o tool_request.arg
              /\ (NamesLoosely(terminal) /\ ~settings.enable_terminal)
                     => tool_result.text = CommandFailed \o TerminalDisabled
              /\ (NamesLoosely(internet) /\ ~settings.enable_internet)
                     => tool_result.text = RequestFailed \o InternetDisabled

\* 'INTERNET:http://x' reached the enabled internet adapter with 'http://x'
C24_Witness ==
    /\ ActionReturned
    /\ tool_request.arg = ActInternet
    /\ settings.enable_internet
    /\ Len(tool_result.calls) = 1
    /\ tool_result.calls[1].arg = ValUrl
    /\ tool_result.calls[1].performed

(***************************************************************************)
(* Properties of the reasoning steps of run.                               *)
(***************************************************************************)
\* the texts, trimmed, that a first generation without a call may give
ThoughtsWithoutCall ==
    { Strip(text) : text \in { t \in Responses : _parse_tool_calls(Strip(t)) = << >> } }

\* the texts, trimmed, that a regeneration may give
ThoughtsOfRegeneration == { Strip(text) : text \in FinalResponses }

\* C25: a reasoning step issues one generation, executes every parsed call
\* and then issues a second generation, in that order, when its first
\* response holds a call, and issues one generation otherwise; the thought
\* of the recorded step is the text of the second generation in the first
\* case and of the first generation in the second.
C25_GenerateExecuteRegenerate ==
    /\ pc = "generate" => step_generations = 0 /\ invocations = << >>
    /\ pc = "tools"
           => /\ step_generations = 1
              /\ step_calls = Len(tool_calls)
              /\ call_index \in 1..Len(tool_calls)
    /\ pc = "regenerate"
           => /\ step_generations = 1
              /\ step_calls >= 1
              /\ call_index = Len(tool_calls) + 1
    /\ pc = "dispatch"
           => IF step_calls >= 1
              THEN /\ step_generations = 2
                   /\ LastStep.thought \in ThoughtsOfRegeneration
              ELSE /\ step_generations = 1
                   /\ LastStep.thought \in ThoughtsWithoutCall

\* a step with two calls was recorded after two generations, its thought the
\* regenerated text
C25_Witness ==
    /\ pc = "dispatch"
    /\ step_calls = 2
    /\ step_generations = 2
    /\ Len(invocations) = 2
    /\ LastStep.thought = Strip(FinalLs)

GenerationCalls == generations.planner + generations.steps

\* C26: every generation call, of the planner, of a step and of a
\* regeneration, is issued together with one reset of the model context
\* right before it, one step issuing at most one call, so the resets of a
\* run are as many as its generation calls.
C26_ResetBeforeGeneration ==
    /\ [](resets = GenerationCalls)
    /\ [][ IF runs' # runs
           THEN GenerationCalls' <= 1 /\ resets' = GenerationCalls'
           ELSE /\ GenerationCalls' \in {GenerationCalls, GenerationCalls + 1}
                /\ resets' - resets = GenerationCalls' - GenerationCalls
         ]_vars

\* the planner, a first generation and a regeneration made three resets
C26_Witness ==
    /\ pc = "dispatch"
    /\ generations = [planner |-> 1, steps |-> 2]
    /\ resets = 3

\* the reasoning steps started so far for the current task
TaskSteps ==
    step_num + (IF pc \in {"generate", "tools", "regenerate", "dispatch"} THEN 1 ELSE 0)

\* where run stands: the task, the part of the task's body, the step, the
\* part of the step
Position ==
    IF pc = "for_task" THEN << task_index, 2, 0, 0 >>
    ELSE IF pc = "after_loop" THEN << task_index, 1, 0, 0 >>
    ELSE IF pc = "for_step" THEN << task_index, 0, step_num, 0 >>
    ELSE IF pc = "generate" THEN << task_index, 0, step_num, 1 >>
    ELSE IF pc = "tools" THEN << task_index, 0, step_num, 1 + call_index >>
    ELSE IF pc = "regenerate" THEN << task_index, 0, step_num, 2 + step_calls >>
    ELSE << task_index, 0, step_num, 3 + step_calls >>

\* the lexicographic order of positions
Before(a, b) ==
    \E k \in 1..4 : a[k] < b[k] /\ \A j \in 1..(k - 1) : a[j] = b[j]

\* C27: a run starts at most max_reasoning_steps reasoning steps for a task,
\* hence at most min(max_iterations, n * max_reasoning_steps) for its n
\* tasks (max_iterations counted as 0 when negative); and a run terminates
\* when every call returns: each of its steps moves it forward through a
\* bounded sequence of positions.
C27_StepsBoundedAndRunEnds ==
    /\ [](InTaskLoop => TaskSteps <= settings.max_reasoning_steps)
    /\ [](/\ run_steps <= IterationBudget
          /\ run_steps <= Len(tasks) * settings.max_reasoning_steps
          /\ run_steps <= task_index * settings.max_reasoning_steps)
    /\ [](~Idle => /\ task_index \in 0..Len(tasks)
                   /\ step_num \in 0..settings.max_reasoning_steps
                   /\ pc = "tools" => call_index \in 1..Len(tool_calls))
    /\ [][ (~Idle /\ ~Idle') => Before(Position, Position') ]_vars

\* a run over one task, one step allowed for a task and two iterations
\* allowed, returned after one step with the task failed
C27_Witness ==
    /\ pc = "returned"
    /\ Len(tasks) = 1
    /\ settings.max_reasoning_steps = 1
    /\ settings.max_iterations = 2
    /\ run_steps = 1
    /\ tasks[1].status = "failed"

\* C28: reasoning_steps is append-only: no step is removed or moved, the
\* thought and the action of a recorded step never change, and an
\* observation is rewritten only for the step appended last, by run's
\* dispatch on that step, which happens once for every appended step.
C28_StepsAppendOnly ==
    [][ /\ Len(reasoning_steps') \in {Len(reasoning_steps), Len(reasoning_steps) + 1}
        /\ \A k \in 1..Len(reasoning_steps) :
               /\ reasoning_steps'[k].thought = reasoning_steps[k].thought
               /\ reasoning_steps'[k].action = reasoning_steps[k].action
               /\ reasoning_steps'[k].observation # reasoning_steps[k].observation
                      => /\ k = Len(reasoning_steps)
                         /\ Len(reasoning_steps') = Len(reasoning_steps)
                         /\ pc = "dispatch"
                         /\ pc' # "dispatch"
        /\ pc' = "dispatch"
               => /\ pc # "dispatch"
                  /\ Len(reasoning_steps') = Len(reasoning_steps) + 1
      ]_vars

\* with two steps recorded, the observation of each was rewritten when it
\* was the last one
C28_Witness ==
    /\ pc = "for_step"
    /\ Len(reasoning_steps) = 2
    /\ StartsWithAt(reasoning_steps[1].observation, 1, CommandOutput)
    /\ StartsWithAt(reasoning_steps[2].observation, 1, CommandFailed)

\* C29: after a step whose action is terminal or internet, run invokes that
\* adapter once more, through _execute_action, with the thought of the step
\* as the command or the URL, and the text of that execution replaces the
\* observation of the step.
C29_ThoughtGoesToAdapter ==
    [][ (pc = "dispatch" /\ LastStep.action \in {terminal, internet})
        => /\ Len(invocations') = Len(invocations) + 1
           /\ invocations'[Len(invocations')].tool = LastStep.action
           /\ invocations'[Len(invocations')].arg = LastStep.thought
           /\ invocations'[Len(invocations')].performed
                  = (IF LastStep.action = terminal THEN settings.enable_terminal
                     ELSE settings.enable_internet)
           /\ LET said == reasoning_steps'[Len(reasoning_steps)].observation
                  ok == invocations'[Len(invocations')].success
              IN  IF LastStep.action = terminal
                  THEN StartsWithAt(said, 1, IF ok THEN CommandOutput ELSE CommandFailed)
                  ELSE StartsWithAt(said, 1, IF ok THEN ResponseTruncated ELSE RequestFailed)
      ]_vars

\* the regenerated text 'ls -l' was run by the enabled terminal adapter
C29_Witness ==
    /\ pc = "for_step"
    /\ Len(invocations) >= 2
    /\ invocations[Len(invocations)].tool = terminal
    /\ invocations[Len(invocations)].arg = Strip(FinalLs)
    /\ invocations[Len(invocations)].performed
    /\ invocations[Len(invocations)].success
    /\ StartsWithAt(LastStep.observation, 1, CommandOutput)

(***************************************************************************)
(* The two patterns of _parse_tool_calls.                                  *)
(***************************************************************************)
\* C30: when the marked pattern matches somewhere in the response, a call
\* written without markers elsewhere in it is not returned, whether the
\* marked match gives a call (the internet call) or none (a bare name, a
\* call of foo); the calls returned are those of the marked matches.
C30_FallbackOnlyWithoutMarked ==
    (parser_pc = "done" /\ parser_source.prose \in MarkedPrefixes)
        => parser_tool_calls =
               IF parser_source.prose = RespInternet \o << "\n" >>
               THEN << [name |-> internet, args |-> DictSet(EmptyDict, url, ValUrl)] >>
               ELSE << >>

\* a marked bare name, which gives no call, kept an unmarked terminal call
\* from being returned
C30_Witness ==
    /\ parser_pc = "done"
    /\ parser_source.prose = ProseMarkedBareName \o << " " >>
    /\ Len(parser_source.calls) = 1
    /\ parser_source.calls[1].name = terminal
    /\ Len(parser_matches) = 1
    /\ parser_tool_calls = << >>

\* C31: for a call whose blob is n well-formed pairs followed by malformed
\* content (a key that no "=" follows, or a value that no quote opens) the
\* call is still returned and its args are exactly the n pairs; the scanner
\* stops inside the malformed content, before the end of the blob.
C31_MalformedTailKeepsPairs ==
    (/\ Len(parser_source.calls) = 1
     /\ parser_source.prose \in Prefixes
     /\ parser_source.calls[1].tail \in MalformedTails)
        => /\ parser_pc = "append"
                  => /\ parser_args = PairsAsArgs(parser_source.calls[1].pairs)
                     /\ parser_i > Len(RenderPairs(parser_source.calls[1].pairs))
                     /\ parser_i <= Len(parser_args_str)
           /\ parser_pc = "done"
                  => parser_tool_calls = << WrittenCall(parser_source.calls[1]) >>

\* 'terminal(command="ls", x=1)' gave one call with the command only
C31_Witness ==
    /\ parser_pc = "done"
    /\ Len(parser_source.calls) = 1
    /\ parser_source.calls[1].tail = TailUnquoted
    /\ Len(parser_tool_calls) = 1
    /\ DOMAIN parser_tool_calls[1].args = {command}
    /\ parser_tool_calls[1].args[command] = ValLs

(***************************************************************************)
(* Properties of a whole call of run, agent.py:460-529.                    *)
(***************************************************************************)
\* C32: when the planner yields no task, run executes no reasoning step and
\* no tool: it goes from the plan straight to its return, iteration_count
\* and reasoning_steps stay as they were before the call, and the result has
\* success = true and an empty task list.
C32_EmptyPlanRunsNothing ==
    /\ []((pc \in {"for_task", "returned"} /\ tasks = << >>)
              => /\ run_steps = 0
                 /\ generations.steps = 0
                 /\ invocations = << >>)
    /\ []((pc = "returned" /\ tasks = << >>)
              => /\ Len(returned) = 1
                 /\ returned[1].success
                 /\ returned[1].tasks = << >>
                 /\ returned[1].iterations = iteration_count
                 /\ returned[1].reasoning_steps = reasoning_steps)
    /\ [][(pc' \in {"for_task", "returned"} /\ tasks' = << >>)
              => /\ UNCHANGED << iteration_count, reasoning_steps >>
                 /\ pc = "for_task" => pc' = "returned"]_vars

\* a second run whose plan was empty returned success, with the one
\* iteration of the first run still counted
C32_Witness ==
    /\ pc = "returned"
    /\ runs = 2
    /\ tasks = << >>
    /\ Len(returned) = 1
    /\ returned[1].success
    /\ iteration_count = 1
    /\ Len(reasoning_steps) = 1

\* C33, as stated: for an agent driven only through run, at every point
\* between reasoning steps the number of recorded reasoning steps equals
\* iteration_count, and the iterations of every returned result equal the
\* length of its reasoning_steps.
C33_StepsEqualIterations ==
    /\ pc \in {"idle", "for_task", "for_step", "dispatch", "after_loop", "returned", "raised"}
           => Len(reasoning_steps) = iteration_count
    /\ returned # << >>
           => returned[1].iterations = Len(returned[1].reasoning_steps)

\* C34: run resets neither iteration_count nor reasoning_steps: a call of
\* run starts from the values the earlier calls left and replaces the task
\* list by the new plan; the iterations of earlier runs count against
\* max_iterations, so that once they have spent it every task of a later
\* run fails with no step executed; and the reasoning_steps and iterations
\* of a result are the agent's, those of earlier runs included.
C34_RunKeepsCounters ==
    /\ [][runs' = runs + 1
              => /\ UNCHANGED << iteration_count, reasoning_steps >>
                 /\ pc' = "for_task"
                        => \E task_text \in PlanTexts : tasks' = ParseTasks(task_text)]_vars
    /\ [][/\ iteration_count' >= iteration_count
          /\ Len(reasoning_steps') >= Len(reasoning_steps)]_vars
    /\ []((pc \notin {"idle", "raised"}
           /\ iteration_count - run_steps >= settings.max_iterations)
              => /\ run_steps = 0
                 /\ generations.steps = 0
                 /\ pc = "returned"
                        => \A i \in 1..Len(tasks) : tasks[i].status = "failed")
    /\ []((pc = "returned" /\ Len(returned) = 1)
              => /\ returned[1].iterations = iteration_count
                 /\ returned[1].reasoning_steps = reasoning_steps
                 /\ returned[1].tasks = tasks
                 /\ returned[1].iterations >= run_steps)

\* a second run on an agent whose two iterations were spent by the first:
\* its task failed with no step, and its result carries the first run's two
\* steps
C34_Witness ==
    /\ pc = "returned"
    /\ runs = 2
    /\ settings.max_iterations = 2
    /\ run_steps = 0
    /\ Len(tasks) >= 1
    /\ \A i \in 1..Len(tasks) : tasks[i].status = "failed"
    /\ Len(returned) = 1
    /\ returned[1].iterations = 2
    /\ Len(returned[1].reasoning_steps) = 2

\* C35: every step that reason_and_act returns has an action that is one of
\* complete, terminal and internet, and an observation that is a text, not
\* None; the action differs from complete exactly when the response held at
\* least one parsed tool call, and is then the name of the last parsed
\* call; so run's branch for any other action is never taken.
C35_ActionIsCompleteOrTool ==
    /\ [](\A k \in 1..Len(reasoning_steps) :
              /\ reasoning_steps[k].action \in {complete, terminal, internet}
              /\ reasoning_steps[k].observation # None)
    /\ [](pc = "dispatch" => (LastStep.action # complete <=> step_calls >= 1))
    /\ [][(pc = "regenerate" /\ pc' = "dispatch")
              => /\ Len(reasoning_steps') = Len(reasoning_steps) + 1
                 /\ reasoning_steps'[Len(reasoning_steps')].action
                        = tool_calls[Len(tool_calls)].name]_vars

\* a response with an internet call and then a terminal call gave a step
\* whose action is terminal
C35_Witness ==
    /\ pc = "dispatch"
    /\ step_calls = 2
    /\ LastStep.action = terminal
    /\ LastStep.observation # << >>

\* the observation that run's dispatch writes for a step
Rewritten(step) ==
    IF step.action = complete
    THEN step.observation = TaskMarkedComplete
    ELSE /\ step.observation # << >>
         /\ step.observation[1] # "\n"
         /\ \E outcome \in OutcomesOf(step.action) :
                step.observation =
                    _execute_action(step.action \o << ":", " " >> \o step.thought,
                                    settings, outcome).text

\* C36: in the result that run returns no step carries the observation
\* that reason_and_act produced: a step whose action is complete has 'Task
\* marked as complete', not 'Task reasoning completed', and a step with a
\* tool action has the text of the loose action path, not the concatenated
\* results of the structured calls. Only the step that run is about to
\* dispatch still carries reason_and_act's observation.
C36_RunRewritesObservation ==
    /\ \A k \in 1..Len(reasoning_steps) :
           \/ pc = "dispatch" /\ k = Len(reasoning_steps)
           \/ Rewritten(reasoning_steps[k])
    /\ returned # << >>
           => \A k \in 1..Len(returned[1].reasoning_steps) :
                  /\ Rewritten(returned[1].reasoning_steps[k])
                  /\ returned[1].reasoning_steps[k].observation # TaskReasoningCompleted

\* a returned result with a terminal step that carries the loose path's
\* text and a complete step that carries 'Task marked as complete'
C36_Witness ==
    /\ pc = "returned"
    /\ Len(returned) = 1
    /\ Len(returned[1].reasoning_steps) = 2
    /\ returned[1].reasoning_steps[1].action = terminal
    /\ returned[1].reasoning_steps[1].observation[1] = "C"
    /\ returned[1].reasoning_steps[2].action = complete
    /\ returned[1].reasoning_steps[2].observation = TaskMarkedComplete

\* C37, as stated: every key in the args of a returned call is a non-empty
\* run of alphanumeric or underscore characters, whatever the input,
\* blobs such as (="x") included.
C37_KeysAreWords ==
    \A k \in 1..Len(parser_tool_calls) :
        \A key \in DOMAIN parser_tool_calls[k].args :
            /\ key # << >>
            /\ \A j \in 1..Len(key) : key[j] \in WordChars

\* C38: when the unmarked pattern cuts the blob at the first ")]", inside a
\* quoted value, the opening quote has no closing quote in the blob: the
\* scanner stores the whole remainder of the blob as the value of the key,
\* runs off the end of the blob, and the call is still returned if it names
\* a tool.
C38_UnterminatedQuoteTakesRemainder ==
    (/\ Len(parser_source.calls) = 1
     /\ ~parser_source.marked
     /\ parser_source.prose \in Prefixes
     /\ parser_source.calls[1].tail = << >>
     /\ Len(parser_source.calls[1].pairs) = 1
     /\ parser_source.calls[1].pairs[1].value = ValCut)
        => LET c == parser_source.calls[1]
               p == c.pairs[1]
               opened == p.key \o << "=", p.quote >>
           IN  /\ parser_pc \in {"scan", "append"}
                      => parser_args_str = opened \o << "a" >>
               /\ parser_pc = "append"
                      => /\ parser_args =
                                DictSet(EmptyDict, p.key,
                                        SubSeq(parser_args_str, Len(opened) + 1,
                                               Len(parser_args_str)))
                         /\ parser_i = Len(parser_args_str) + 2
               /\ parser_pc = "done"
                      => parser_tool_calls =
                             IF NamesATool(c)
                             THEN << [name |-> c.name,
                                      args |-> DictSet(EmptyDict, p.key, << "a" >>)] >>
                             ELSE << >>

\* '[terminal(command="a)]b")]' gave a terminal call whose command is 'a'
C38_Witness ==
    /\ parser_pc = "done"
    /\ Len(parser_source.calls) = 1
    /\ ~parser_source.marked
    /\ parser_source.calls[1].name = terminal
    /\ Len(parser_source.calls[1].pairs) = 1
    /\ parser_source.calls[1].pairs[1].value = ValCut
    /\ parser_i = Len(parser_args_str) + 2
    /\ Len(parser_tool_calls) = 1
    /\ parser_tool_calls[1].args[command] = << "a" >>

\* C39: a task ends a run completed exactly when a reasoning step executed
\* for it parsed no tool call, and that step is the last step executed for
\* the task: such a step marks the task completed and leaves the step loop;
\* a step whose response held a recognised tool call changes no status and
\* goes on to the next step, whatever the tools returned; and a task that
\* leaves the step loop without being completed is marked failed.
C39_CompletedIffStepWithoutCall ==
    /\ [][\A i \in 1..Len(tasks') :
              (/\ tasks'[i].status = "completed"
               /\ i > Len(tasks) \/ tasks[i].status # "completed")
                  => /\ pc = "dispatch"
                     /\ step_calls = 0
                     /\ i = task_index
                     /\ pc' = "after_loop"]_vars
    /\ [][(pc = "dispatch" /\ step_calls = 0)
              => /\ tasks' = [tasks EXCEPT ![task_index].status = "completed"]
                 /\ pc' = "after_loop"
                 /\ run_steps' = run_steps]_vars
    /\ [][(pc = "dispatch" /\ step_calls >= 1)
              => /\ tasks' = tasks
                 /\ pc' = "for_step"]_vars
    /\ [][pc = "after_loop"
              => tasks' = [tasks EXCEPT ![task_index].status =
                               IF @ = "completed" THEN "completed" ELSE "failed"]]_vars
    /\ [](pc = "returned"
              => \A i \in 1..Len(tasks) : tasks[i].status \in {"completed", "failed"})

\* a run returned with a first task failed after a terminal step whose
\* command succeeded, and a second task completed by a step without a call
C39_Witness ==
    /\ pc = "returned"
    /\ runs = 1
    /\ Len(tasks) = 2
    /\ tasks[1].status = "failed"
    /\ tasks[2].status = "completed"
    /\ Len(reasoning_steps) = 2
    /\ reasoning_steps[1].action = terminal
    /\ ~HasFailureText(reasoning_steps[1].observation)
    /\ reasoning_steps[2].action = complete

\* C40: the tasks are processed strictly in the order of the plan: whenever
\* a task is in-progress, every task before it is completed or failed and
\* every task after it is pending; within a run a step changes the status
\* of at most one task, the one the loop is at, and the loop moves from a
\* task to the next one only.
C40_TasksInPlanOrder ==
    /\ [](\A i \in 1..Len(tasks) :
              tasks[i].status = "in-progress"
                  => /\ \A j \in 1..(i - 1) : tasks[j].status \in {"completed", "failed"}
                     /\ \A j \in (i + 1)..Len(tasks) : tasks[j].status = "pending")
    /\ [](pc \in {"for_step", "generate", "tools", "regenerate", "dispatch"}
              => /\ task_index \in 1..Len(tasks)
                 /\ tasks[task_index].status = "in-progress")
    /\ [][runs' = runs
              => /\ Len(tasks') = Len(tasks)
                 /\ task_index' \in {task_index, task_index + 1}
                 /\ \A j \in 1..Len(tasks) :
                        tasks'[j] # tasks[j]
                            => /\ j = task_index'
                               /\ tasks'[j] = [tasks[j] EXCEPT !.status = tasks'[j].status]]_vars

\* the loop is at the second task of a plan of two: the first is failed and
\* the second is in-progress
C40_Witness ==
    /\ pc = "generate"
    /\ Len(tasks) = 2
    /\ task_index = 2
    /\ tasks[1].status = "failed"
    /\ tasks[2].status = "in-progress"
====
